---------------------------- MODULE Spec2Model ----------------------------
(***************************************************************************)
(* Resilient multi-stage analysis and ranking pipeline of the stock        *)
(* analysis backend.                                                       *)
(*                                                                         *)
(*  SpecFetch    : RedisCache + get_stock_price / get_fundamental_data     *)
(*  SpecSynth    : RecommendationAgent.synthesize as a function of the     *)
(*                 three stage outputs                                     *)
(*  SpecPipeline : the LangGraph workflow of analyze_stock                 *)
(*  SpecRank     : the ranking phase of RecommendationService.             *)
(*                 get_top_stocks with MarketRecommendationAgent           *)
(*                                                                         *)
(* Numbers with two decimals (confidence, scores) are kept in hundredths.  *)
(***************************************************************************)
EXTENDS Integers, Sequences, FiniteSets, TLC

VARIABLES
    \* ---- RedisCache (core/redis_client.py) and its backing store
    available,       \* RedisCache.available, fixed by __init__
    redisUp,         \* whether the Redis server answers right now
    redis_store,     \* the server's keys: key -> [value, expires]
    fallback_cache,  \* RedisCache._fallback_cache: key -> payload
    now,             \* wall clock, seconds
    \* ---- one call of get_stock_price / get_fundamental_data
    fetch,           \* position and locals of the running fetch
    nextId,          \* distinguishes the payloads produced so far
    hitlog,          \* history: key -> what the first hit on its entry returned, and
                     \* whether it was hit again
    ttls,            \* history: key -> the TTLs its live / fallback writes used
    \* ---- one run of analyze_stock (agents/orchestrator.py)
    state,           \* the StockAnalysisState that flows through the graph
    graph,           \* the graph runner: nodes to start, running, finished
    trace,           \* history: the node starts and finishes, in order
    forced,          \* the stages whose work is made to fail in this run
    result,          \* what analyze_stock returned
    \* ---- the ranking phase of get_top_stocks (services/recommendation_service.py)
    valid_results,   \* the results of the stocks that passed the score filter
    limit,           \* how many stocks the caller asked for
    rank_pc,         \* position in get_top_stocks
    oracle,          \* history: what the ranking agent's model answered
    ranked,          \* history: the ranked list before it is cut to the limit
    top_stocks,      \* what get_top_stocks returned
    \* ---- one call of _analyze_stock_for_recommendation, after its awaits
    score_in,        \* what the awaits gave: price_data and the analysis result
    score_pc,        \* position in the call
    scores,          \* history: what each _calculate_recommendation_score call returned
    min_score,       \* the threshold the call applied (0 before it is set)
    analysed,        \* what the call returned
    \* ---- the analysis batch of get_top_stocks: tasks on one event loop
    task,            \* task -> where its coroutine stands
    sem,             \* asyncio.Semaphore._value
    thread,          \* the task that keeps the loop's thread in a blocking call, 0 if none
    stalls,          \* the tasks whose analysis awaits an answer that never comes
    gathered,        \* task -> what gather collected for it
    batch_pc,        \* position of get_top_stocks in the batch
    \* ---- direct use of the cache object (core/redis_client.py)
    cache_log,       \* history: the calls made on the cache and what they returned
    \* ---- generate_fallback_data (agents/tools/stock_price_tool.py)
    bars,            \* the historical_data of the payload it built
    \* ---- two calls of get_stock_price for one key, interleaved
    racers           \* racer -> position and locals of its call

fetchVars == <<available, redisUp, redis_store, fallback_cache, now, fetch, nextId,
               hitlog, ttls>>

pipeVars == <<state, graph, trace, forced, result>>

rankVars == <<valid_results, limit, rank_pc, oracle, ranked, top_stocks>>

scoreVars == <<score_in, score_pc, scores, min_score, analysed>>

batchVars == <<task, sem, thread, stalls, gathered, batch_pc>>

sideVars == <<cache_log, bars, racers>>

notFetchVars == <<pipeVars, rankVars, scoreVars, batchVars, sideVars>>

notPipeVars == <<fetchVars, rankVars, scoreVars, batchVars, sideVars>>

notRankVars == <<fetchVars, pipeVars, scoreVars, batchVars, sideVars>>

notScoreVars == <<fetchVars, pipeVars, rankVars, batchVars, sideVars>>

notBatchVars == <<fetchVars, pipeVars, rankVars, scoreVars, sideVars>>

vars == <<fetchVars, pipeVars, rankVars, scoreVars, batchVars, sideVars>>

-----------------------------------------------------------------------------
(* Python values: None, dicts as functions from their keys, exceptions *)

None == [None |-> TRUE]
IsNone(x) == DOMAIN x = {"None"}

EmptyDict == <<>>

\* d.get(k, default)
Get(d, k, default) == IF k \in DOMAIN d THEN d[k] ELSE default

\* truthiness of an Optional[dict]
Bool(d) == ~IsNone(d) /\ DOMAIN d # {}

\* a raised Exception(msg), as the value of the call that raised it
Exception(msg) == [exception |-> msg]
IsException(x) == DOMAIN x = {"exception"}

\* No analysis is running
NoGraph == [todo |-> {}, running |-> {}, done |-> {}, raised |-> FALSE]

NoRun ==
    /\ state = None
    /\ graph = NoGraph
    /\ trace = <<>>
    /\ forced = {}
    /\ result = None

\* No ranking is running
NoRanking ==
    /\ valid_results = <<>>
    /\ limit = 1
    /\ rank_pc = "idle"
    /\ oracle = [kind |-> "None"]
    /\ ranked = <<>>
    /\ top_stocks = <<>>

\* No stock is being scored
NoScoring ==
    /\ score_in = None
    /\ score_pc = "idle"
    /\ scores = <<>>
    /\ min_score = 0
    /\ analysed = None

\* The cache object is used by the tools only, no payload is being
\* generated, no two calls race
NoSide ==
    /\ cache_log = <<>>
    /\ bars = <<>>
    /\ racers = <<>>

\* No batch is running
BatchIdle ==
    /\ task = <<>>
    /\ sem = 0
    /\ thread = 0
    /\ stalls = {}
    /\ gathered = <<>>
    /\ batch_pc = "idle"

NoBatch == NoSide /\ BatchIdle

-----------------------------------------------------------------------------
(* Bounds of the model *)

MaxPayloads == 2
MaxTicks == 4
TickSeconds == 900

-----------------------------------------------------------------------------
(* Resilient fetcher: program constants *)

PRICE_MAX_RETRIES == 2
FUND_MAX_RETRIES == 1
LIVE_TTL == 3600
FALLBACK_TTL_AsLive == LIVE_TTL
FALLBACK_TTL == 900

Tools == {"stock_price", "fundamental_data"}

\* f"stock_price:{symbol}:{market}:{period}" / f"fundamental_data:{yahoo_symbol}:{market}"
\* for the one instrument of this model
cache_key(t) == IF t = "stock_price" THEN "stock_price:RELIANCE:india_nse:3mo"
                ELSE "fundamental_data:RELIANCE.NS:india_nse"

Keys == {cache_key(t) : t \in Tools}

max_retries(t) == IF t = "stock_price" THEN PRICE_MAX_RETRIES ELSE FUND_MAX_RETRIES

\* A payload is the dict a fetcher returns; id stands for its content
\* (prices, fetched_at), data_source is the tag the code sets.
NoPayload == [data_source |-> "None", id |-> 0]

LiveSources == {"yahoo_finance"}
FallbackSources == {"fallback_demo", "fallback"}

Payloads == [data_source : LiveSources \cup FallbackSources, id : 1..(MaxPayloads + 1)]

\* json.dumps / json.loads of a payload (str keys, numbers, strings, null)
Serialize(p) == <<"json", p.data_source, p.id>>
Deserialize(s) == [data_source |-> s[2], id |-> s[3]]

\* A lookup whose result is never taken: every call goes upstream
Truthy_Never(p) == p # p

\* Python truthiness of what cache.get returned (None or a non-empty dict)
Truthy(p) == p # NoPayload

-----------------------------------------------------------------------------
(* RedisCache *)

\* redis_client.get(key): the server drops a key when its TTL has run out.
\* <<>> stands for nil.
RedisGet(key) ==
    IF key \in DOMAIN redis_store /\ now < redis_store[key].expires
    THEN redis_store[key].value
    ELSE <<>>

\* RedisCache.get: a RedisError (server down) is caught and gives None
CacheGet(key) ==
    IF available
    THEN IF redisUp
         THEN LET value == RedisGet(key)
              IN IF value # <<>> THEN Deserialize(value) ELSE NoPayload
         ELSE NoPayload
    ELSE IF key \in DOMAIN fallback_cache THEN fallback_cache[key] ELSE NoPayload

\* RedisCache.set, its effect on the server (setex) ...
CacheSetRedis(key, value, ttl) ==
    IF available /\ redisUp
    THEN (key :> [value |-> Serialize(value), expires |-> now + ttl]) @@ redis_store
    ELSE redis_store

\* ... on the in-process map (no TTL) ...
CacheSetLocal(key, value) ==
    IF ~available THEN (key :> value) @@ fallback_cache ELSE fallback_cache

\* ... and its return value
CacheSetOk == ~available \/ redisUp

-----------------------------------------------------------------------------
(* Upstream behaviour of one attempt, as the handlers of the retry loops   *)
(* tell it apart                                                           *)

PriceOutcomes == {"ok", "empty", "timeout", "http429", "http_error", "other"}

FundOutcomes == {"ok", "empty", "timeout", "http429", "http_error",
                 "json_error", "value_error", "other_rate_limit", "other"}

OutcomesOf(t) == IF t = "stock_price" THEN PriceOutcomes ELSE FundOutcomes

\* The try body of the loop of get_stock_price: "return" (live result),
\* "continue", or the exception it raises.
PriceBody(o, attempt) ==
    CASE o = "ok" -> "return"
      [] o = "empty" ->
            IF attempt < PRICE_MAX_RETRIES - 1 THEN "continue" ELSE "ValueError"
      [] o = "timeout" -> "Timeout"
      [] o = "http429" -> "HTTPError429"
      [] o = "http_error" -> "HTTPError"
      [] OTHER -> "Exception"

\* The except clauses of that loop: "continue", "fallthrough" (the clause
\* ends and the for statement goes on), "break", "uncaught".
PriceExcept(exc, attempt) ==
    CASE exc = "Timeout" ->
            IF attempt < PRICE_MAX_RETRIES - 1 THEN "continue" ELSE "fallthrough"
      [] exc = "HTTPError429" ->
            IF attempt < PRICE_MAX_RETRIES - 1 THEN "continue" ELSE "fallthrough"
      [] exc = "HTTPError" -> "fallthrough"
      [] OTHER ->
            IF attempt < PRICE_MAX_RETRIES - 1 THEN "continue" ELSE "fallthrough"

\* The try body of the loop of get_fundamental_data
FundBody(o, attempt) ==
    CASE o = "ok" -> "return"
      [] o = "empty" ->
            IF attempt < FUND_MAX_RETRIES - 1 THEN "continue" ELSE "ValueError"
      [] o = "timeout" -> "Timeout"
      [] o = "http429" -> "HTTPError429"
      [] o = "http_error" -> "HTTPError"
      [] o = "json_error" -> "JSONDecodeError"
      [] o = "value_error" -> "ValueError"
      [] o = "other_rate_limit" -> "ExceptionRateLimit"
      [] OTHER -> "Exception"

\* The except clauses of that loop. A ValueError / KeyError / JSONDecodeError
\* or any other exception breaks when its message reads like a JSON parse
\* error or a rate limit.
FundExcept(exc, attempt) ==
    CASE exc = "Timeout" ->
            IF attempt < FUND_MAX_RETRIES - 1 THEN "continue" ELSE "fallthrough"
      [] exc = "HTTPError429" -> "break"
      [] exc = "HTTPError" -> "fallthrough"
      [] exc = "JSONDecodeError" -> "break"
      [] exc = "ValueError" ->
            IF attempt < FUND_MAX_RETRIES - 1 THEN "continue" ELSE "fallthrough"
      [] exc = "ExceptionRateLimit" -> "break"
      [] OTHER ->
            IF attempt < FUND_MAX_RETRIES - 1 THEN "continue" ELSE "fallthrough"

\* The outer `except Exception` of both tools: return generate_fallback_*()
\* without caching it
OuterExcept(exc) == "last_resort"

\* One iteration without any exception handling: what the body raises leaves
\* the tool
Handler_NoExcept(t, o, attempt) ==
    LET b == IF t = "stock_price" THEN PriceBody(o, attempt) ELSE FundBody(o, attempt)
    IN IF b \in {"return", "continue"} THEN b ELSE "raise"

\* One iteration of the loop inside the two try statements
Handler(t, o, attempt) ==
    LET b == IF t = "stock_price" THEN PriceBody(o, attempt) ELSE FundBody(o, attempt)
        h == IF t = "stock_price" THEN PriceExcept(b, attempt) ELSE FundExcept(b, attempt)
    IN IF b \in {"return", "continue"} THEN b
       ELSE IF h = "uncaught" THEN OuterExcept(b) ELSE h

\* for attempt in range(max_retries): is there a next iteration
LoopGoesOn(t, h, attempt) ==
    h \in {"continue", "fallthrough"} /\ attempt + 1 < max_retries(t)

LiveSource(t) == "yahoo_finance"

\* data_source of generate_fallback_data / generate_fallback_fundamental_data
FallbackSource(t) == IF t = "stock_price" THEN "fallback_demo" ELSE "fallback"

\* What leaves a tool when an exception escapes it
Raised == [data_source |-> "raised", id |-> 0]

Idle == [pc |-> "idle", tool |-> "stock_price", attempt |-> 0, outcomes |-> <<>>,
         result |-> NoPayload, held |-> NoPayload, setcall |-> <<>>]

NoTtls == [k \in Keys |-> [live |-> {}, fallback |-> {}]]

-----------------------------------------------------------------------------
(* The fetcher, step by step *)

InitFetch ==
    /\ available \in BOOLEAN
    /\ redisUp = available
    /\ redis_store = <<>>
    /\ fallback_cache = <<>>
    /\ now = 0
    /\ fetch = Idle
    /\ nextId = 1
    /\ hitlog = <<>>
    /\ ttls = NoTtls
    /\ NoRun
    /\ NoRanking
    /\ NoScoring
    /\ NoBatch

\* The entry of `key` a reader of the cache can see: present, not expired,
\* store reachable. Read from the raw state, not through RedisCache.get.
Held(key) ==
    IF available
    THEN IF redisUp /\ key \in DOMAIN redis_store /\ now < redis_store[key].expires
         THEN [data_source |-> redis_store[key].value[2], id |-> redis_store[key].value[3]]
         ELSE NoPayload
    ELSE IF key \in DOMAIN fallback_cache THEN fallback_cache[key] ELSE NoPayload

\* hitlog after a cache.set of `key`: a new entry, no hit on it yet
Forget(key) == [k \in (DOMAIN hitlog) \ {key} |-> hitlog[k]]

\* The tool is invoked
FetchCall(t) ==
    /\ fetch.pc = "idle"
    /\ nextId <= MaxPayloads
    /\ fetch' = [Idle EXCEPT !.pc = "cache_get", !.tool = t]
    /\ UNCHANGED <<available, redisUp, redis_store, fallback_cache, now, nextId,
                   hitlog, ttls>>
    /\ UNCHANGED notFetchVars

\* cached_data = cache.get(cache_key); if cached_data: return cached_data
CacheLookup ==
    /\ fetch.pc = "cache_get"
    /\ LET key == cache_key(fetch.tool)
           cached_data == CacheGet(key)
       IN /\ fetch' = IF Truthy(cached_data)
                      THEN [fetch EXCEPT !.pc = "done", !.result = cached_data,
                                         !.held = Held(key)]
                      ELSE [fetch EXCEPT !.pc = "attempt", !.held = Held(key)]
          /\ hitlog' = IF ~Truthy(cached_data) THEN hitlog
                       ELSE IF key \in DOMAIN hitlog
                            THEN [hitlog EXCEPT ![key].again = TRUE]
                            ELSE (key :> [first |-> cached_data, again |-> FALSE]) @@ hitlog
    /\ UNCHANGED <<available, redisUp, redis_store, fallback_cache, now, nextId, ttls>>
    /\ UNCHANGED notFetchVars

\* One iteration of the retry loop: the upstream call and what the try
\* statements make of it
UpstreamAttempt(o) ==
    /\ fetch.pc = "attempt"
    /\ o \in OutcomesOf(fetch.tool)
    /\ LET t == fetch.tool
           key == cache_key(t)
           h == Handler(t, o, fetch.attempt)
           live == [data_source |-> LiveSource(t), id |-> nextId]
           last == [data_source |-> FallbackSource(t), id |-> nextId]
           outs == Append(fetch.outcomes, o)
       IN CASE h = "return" ->
                 \* cache.set(cache_key, result, ttl=3600); return result
                 /\ redis_store' = CacheSetRedis(key, live, LIVE_TTL)
                 /\ fallback_cache' = CacheSetLocal(key, live)
                 /\ fetch' = [fetch EXCEPT !.pc = "done", !.result = live,
                                !.outcomes = outs,
                                !.setcall = <<[key |-> key, value |-> live,
                                               ttl |-> LIVE_TTL, at |-> now,
                                               ok |-> CacheSetOk]>>]
                 /\ nextId' = nextId + 1
                 /\ hitlog' = Forget(key)
                 /\ ttls' = [ttls EXCEPT ![key].live = @ \cup {LIVE_TTL}]
            [] h = "last_resort" ->
                 /\ fetch' = [fetch EXCEPT !.pc = "done", !.result = last,
                                           !.outcomes = outs]
                 /\ nextId' = nextId + 1
                 /\ UNCHANGED <<redis_store, fallback_cache, hitlog, ttls>>
            [] h = "raise" ->
                 /\ fetch' = [fetch EXCEPT !.pc = "done", !.result = Raised,
                                           !.outcomes = outs]
                 /\ UNCHANGED <<redis_store, fallback_cache, nextId, hitlog, ttls>>
            [] OTHER ->
                 /\ fetch' = IF LoopGoesOn(t, h, fetch.attempt)
                             THEN [fetch EXCEPT !.attempt = @ + 1, !.outcomes = outs]
                             ELSE [fetch EXCEPT !.pc = "fallback", !.outcomes = outs]
                 /\ UNCHANGED <<redis_store, fallback_cache, nextId, hitlog, ttls>>
    /\ UNCHANGED <<available, redisUp, now>>
    /\ UNCHANGED notFetchVars

\* All retries failed: generate the fallback payload, cache it for 15
\* minutes, return it
UseFallback ==
    /\ fetch.pc = "fallback"
    /\ LET t == fetch.tool
           key == cache_key(t)
           fallback_result == [data_source |-> FallbackSource(t), id |-> nextId]
       IN /\ redis_store' = CacheSetRedis(key, fallback_result, FALLBACK_TTL)
          /\ fallback_cache' = CacheSetLocal(key, fallback_result)
          /\ fetch' = [fetch EXCEPT !.pc = "done", !.result = fallback_result,
                         !.setcall = <<[key |-> key, value |-> fallback_result,
                                        ttl |-> FALLBACK_TTL, at |-> now,
                                        ok |-> CacheSetOk]>>]
          /\ nextId' = nextId + 1
          /\ hitlog' = Forget(key)
          /\ ttls' = [ttls EXCEPT ![key].fallback = @ \cup {FALLBACK_TTL}]
    /\ UNCHANGED <<available, redisUp, now>>
    /\ UNCHANGED notFetchVars

\* The caller has the result
FetchReturn ==
    /\ fetch.pc = "done"
    /\ fetch' = Idle
    /\ UNCHANGED <<available, redisUp, redis_store, fallback_cache, now, nextId,
                   hitlog, ttls>>
    /\ UNCHANGED notFetchVars

\* Time passes
Tick ==
    /\ now + TickSeconds <= MaxTicks * TickSeconds
    /\ now' = now + TickSeconds
    /\ UNCHANGED <<available, redisUp, redis_store, fallback_cache, fetch, nextId,
                   hitlog, ttls>>
    /\ UNCHANGED notFetchVars

\* The Redis server goes away / comes back
RedisFail ==
    /\ redisUp
    /\ redisUp' = FALSE
    /\ UNCHANGED <<available, redis_store, fallback_cache, now, fetch, nextId,
                   hitlog, ttls>>
    /\ UNCHANGED notFetchVars

RedisRecover ==
    /\ ~redisUp
    /\ redisUp' = TRUE
    /\ UNCHANGED <<available, redis_store, fallback_cache, now, fetch, nextId,
                   hitlog, ttls>>
    /\ UNCHANGED notFetchVars

NextFetch ==
    \/ \E t \in Tools : FetchCall(t)
    \/ CacheLookup
    \/ \E o \in FundOutcomes : UpstreamAttempt(o)
    \/ UseFallback
    \/ FetchReturn
    \/ Tick
    \/ RedisFail
    \/ RedisRecover

SpecFetch == InitFetch /\ [][NextFetch]_vars


-----------------------------------------------------------------------------
(* Properties of the resilient fetcher, checked under SpecFetch *)

\* C1: whatever the cache holds and whatever each upstream attempt and each
\* cache access does, a finished fetch has returned a payload that is live
\* upstream data or a synthetic fallback; it has not raised and has not
\* returned an error value.
C1_FetchAlwaysReturnsPayload ==
    fetch.pc = "done" =>
        /\ fetch.result \in Payloads
        /\ fetch.result.data_source \in LiveSources \cup FallbackSources

\* C1 witness: a fetch whose cache read and write failed on a dead Redis and
\* whose every attempt raised has returned a fallback payload.
C1_Witness ==
    /\ fetch.pc = "done"
    /\ available /\ ~redisUp
    /\ fetch.setcall # <<>> /\ ~fetch.setcall[1].ok
    /\ fetch.outcomes = <<"other", "http_error">>
    /\ fetch.result.data_source \in FallbackSources

RateLimitShapes == {"http429", "empty", "json_error", "other_rate_limit"}

\* C2: within one fetch, an attempt that ended in HTTP 429 or in an empty /
\* non-structured response is the last upstream attempt of that fetch.
C2_NoAttemptAfterRateLimit ==
    \A i \in 1..(Len(fetch.outcomes) - 1) : fetch.outcomes[i] \notin RateLimitShapes

\* C3: a fetch that found a readable, non-expired entry under its key has
\* returned exactly that entry's payload without any upstream call, and every
\* later hit on the same entry returns the payload the first hit returned.
C3_CacheHitIdempotent ==
    (fetch.pc = "done" /\ fetch.held # NoPayload) =>
        /\ fetch.result = fetch.held
        /\ fetch.outcomes = <<>>
        /\ fetch.setcall = <<>>
        /\ cache_key(fetch.tool) \in DOMAIN hitlog
        /\ hitlog[cache_key(fetch.tool)].first = fetch.result

\* C3 witness: a second hit on the same Redis entry, a fallback payload.
C3_Witness ==
    /\ fetch.pc = "done"
    /\ available
    /\ fetch.held # NoPayload
    /\ fetch.held.data_source = "fallback"
    /\ hitlog[cache_key(fetch.tool)].again

AllAttemptsFailed == fetch.outcomes # <<>> /\ \A i \in 1..Len(fetch.outcomes) : fetch.outcomes[i] # "ok"

\* C4: a fetch whose every upstream attempt failed has returned a payload
\* tagged as fallback and has written that same payload to the cache with the
\* fallback TTL; on a reachable Redis the entry expires that long after the
\* write; and every TTL used for a fallback write of a key is strictly
\* shorter than every TTL used for a live write of that key.
C4_FallbackCachedShorter ==
    /\ (fetch.pc = "done" /\ AllAttemptsFailed) =>
          /\ fetch.result.data_source \in FallbackSources
          /\ fetch.setcall # <<>>
          /\ fetch.setcall[1].key = cache_key(fetch.tool)
          /\ fetch.setcall[1].value = fetch.result
          /\ fetch.setcall[1].ttl < LIVE_TTL
          /\ (available /\ fetch.setcall[1].ok) =>
                /\ redis_store[cache_key(fetch.tool)].value = Serialize(fetch.result)
                /\ redis_store[cache_key(fetch.tool)].expires
                      = fetch.setcall[1].at + fetch.setcall[1].ttl
    /\ \A k \in Keys : \A f \in ttls[k].fallback : \A l \in ttls[k].live : f < l

\* C4 witness: after a live write of the price key has expired, a fetch of it
\* used up both attempts and cached its fallback on Redis.
C4_Witness ==
    /\ fetch.pc = "done"
    /\ fetch.tool = "stock_price"
    /\ Len(fetch.outcomes) = PRICE_MAX_RETRIES
    /\ AllAttemptsFailed
    /\ available /\ fetch.setcall[1].ok
    /\ ttls[cache_key("stock_price")].live # {}

-----------------------------------------------------------------------------
(* The analysis stages: tools and agents                                   *)
(* Prices are in hundredths; timestamps and free text are left out.        *)

PriceCents == 10000

Symbol == "RELIANCE"

Signals == {"buy", "sell", "hold"}

RiskTolerances == {"conservative", "moderate", "aggressive"}

\* n / d rounded to the nearest integer (d > 0)
RoundDiv(n, d) == (2 * n + d) \div (2 * d)

\* need at least 50 days
MIN_POINTS == 50

\* the lengths a price series has here
SeriesLengths == {0, MIN_POINTS - 1, MIN_POINTS, 90}

\* the tool without its length check
InsufficientData_Never(points) == FALSE

\* if len(df) < 50
InsufficientData(points) == points < MIN_POINTS

InsufficientHistory == [error |-> "Insufficient data", symbol |-> Symbol]

CalculationFailed == [error |-> "calculation failed", symbol |-> Symbol, analyzed_at |-> "t"]

\* calculate_technical_indicators on a series of `points' rows; `computed'
\* is what the indicator code gives when it is reached
calculate_technical_indicators(points, computed) ==
    IF InsufficientData(points) THEN InsufficientHistory ELSE computed

\* what the indicator code gives: the indicators and their summary
TechToolOk ==
    { [symbol |-> Symbol, analyzed_at |-> "t",
       indicators |->
          [ema |-> [current_price |-> p],
           bollinger_bands |-> [lower_band |-> (p * 9) \div 10,
                                upper_band |-> (p * 11) \div 10],
           summary |-> [overall_signal |-> s]]]
      : s \in Signals, p \in {0, PriceCents} }

\* calculate_technical_indicators: the error dicts it returns
TechToolErrors ==
    {r \in {calculate_technical_indicators(points, computed) :
                points \in SeriesLengths, computed \in TechToolOk \cup {CalculationFailed}} :
        "error" \in DOMAIN r}

\* f"Technical analysis failed: {str(e)}"
TechnicalFailure(error) ==
    IF error = "Insufficient data"
    THEN "Technical analysis failed: Insufficient data"
    ELSE "Technical analysis failed: calculation failed"

\* the agent that returns a result whatever the tool gave
TechnicalAnalyze_IgnoresError(indicators_data) ==
    [agent |-> "TechnicalAnalyst", symbol |-> Symbol,
     indicators |-> Get(indicators_data, "indicators", EmptyDict),
     analyzed_at |-> Get(indicators_data, "analyzed_at", "None")]

\* TechnicalAnalysisAgent.analyze
TechnicalAnalyze(indicators_data) ==
    IF "error" \in DOMAIN indicators_data
    THEN Exception(TechnicalFailure(indicators_data.error))
    ELSE [agent |-> "TechnicalAnalyst", symbol |-> Symbol,
          indicators |-> Get(indicators_data, "indicators", EmptyDict),
          analyzed_at |-> Get(indicators_data, "analyzed_at", "None")]

\* get_fundamental_data: what the tool call gives the agent
FundToolErrors ==
    { Exception("tool call failed"),
      [error |-> "no data", symbol |-> Symbol] }

FundToolOk ==
    { [symbol |-> Symbol, analyzed_at |-> "t",
       fundamental_details |-> [valuation_metrics |-> [pe_ratio |-> 1500]],
       data_source |-> "yahoo_finance"],
      [symbol |-> Symbol, analyzed_at |-> "t",
       fundamental_details |-> [valuation_metrics |-> [pe_ratio |-> 2000]],
       data_source |-> "fallback", note |-> "using default values"] }

\* FundamentalAnalysisAgent.analyze: never raises
FundamentalAnalyze(fundamental_data) ==
    IF IsException(fundamental_data)
    THEN [agent |-> "FundamentalAnalyst", symbol |-> Symbol,
          fundamental_details |-> EmptyDict, analyzed_at |-> "t",
          error |-> fundamental_data.exception,
          note |-> "continuing with available data"]
    ELSE IF /\ "error" \in DOMAIN fundamental_data
            /\ ~ /\ "data_source" \in DOMAIN fundamental_data
                 /\ fundamental_data.data_source = "fallback"
    THEN [agent |-> "FundamentalAnalyst", symbol |-> Symbol,
          fundamental_details |-> EmptyDict, analyzed_at |-> "t",
          error |-> fundamental_data.error,
          note |-> "analysis continues with technical and sentiment data"]
    ELSE [agent |-> "FundamentalAnalyst", symbol |-> Symbol,
          fundamental_details |-> Get(fundamental_data, "fundamental_details", EmptyDict),
          analyzed_at |-> Get(fundamental_data, "analyzed_at", "None"),
          data_source |-> Get(fundamental_data, "data_source", "yahoo_finance")]

\* analyze_sentiment: what the tool returns
SentToolErrors == { [error |-> "sentiment failed", symbol |-> Symbol] }

SentToolOk ==
    { [symbol |-> Symbol, company_name |-> Symbol, analyzed_at |-> "t",
       overall_sentiment |-> "neutral", sentiment_score |-> 0, confidence |-> 50,
       sentiment_details |-> [news_count |-> 0, positive_mentions |-> 0,
                              negative_mentions |-> 0]] }

\* SentimentAnalysisAgent.analyze
SentimentAnalyze(sentiment_data) ==
    IF "error" \in DOMAIN sentiment_data
    THEN Exception("Sentiment analysis failed")
    ELSE [agent |-> "SentimentAnalyst", symbol |-> Symbol,
          sentiment_details |-> Get(sentiment_data, "sentiment_details", EmptyDict),
          overall_sentiment |-> Get(sentiment_data, "overall_sentiment", "None"),
          analyzed_at |-> Get(sentiment_data, "analyzed_at", "None")]

-----------------------------------------------------------------------------
(* RecommendationAgent.synthesize *)

extract_current_price(analysis) ==
    IF Bool(analysis) /\ "error" \notin DOMAIN analysis
    THEN Get(Get(Get(analysis, "indicators", EmptyDict), "ema", EmptyDict),
             "current_price", 0)
    ELSE 0

extract_technical_signal(analysis) ==
    IF Bool(analysis) /\ "error" \notin DOMAIN analysis
    THEN Get(Get(Get(analysis, "indicators", EmptyDict), "summary", EmptyDict),
             "overall_signal", "hold")
    ELSE "hold"

extract_fundamental_signal(analysis) ==
    IF Bool(analysis) /\ "error" \notin DOMAIN analysis THEN "hold" ELSE "hold"

extract_sentiment_signal(analysis) ==
    IF Bool(analysis) /\ "error" \notin DOMAIN analysis
    THEN LET sentiment == Get(analysis, "overall_sentiment", "neutral")
         IN IF sentiment = "positive" THEN "buy"
            ELSE IF sentiment = "negative" THEN "sell"
            ELSE "hold"
    ELSE "hold"

\* sum(1 for s in signals if s == v)
Votes(signals, v) == Cardinality({i \in DOMAIN signals : signals[i] = v})

\* one vote is enough
ResolveAction_AnyVote(buy_votes, sell_votes) ==
    IF buy_votes >= 1 THEN "buy" ELSE IF sell_votes >= 1 THEN "sell" ELSE "hold"

\* if buy_votes >= 2 ... elif sell_votes >= 2 ... else
ResolveAction(buy_votes, sell_votes) ==
    IF buy_votes >= 2 THEN "buy" ELSE IF sell_votes >= 2 THEN "sell" ELSE "hold"

\* the share of all the votes cast, whatever the action
ResolveConfidence_Share(action, buy_votes, sell_votes) ==
    RoundDiv((IF action = "buy" THEN buy_votes
              ELSE IF action = "sell" THEN sell_votes
              ELSE 3 - buy_votes - sell_votes) * 100 * 100, 3)

\* round((votes / 3) * 100, 2), or round(50, 2) for hold; in hundredths
ResolveConfidence(action, buy_votes, sell_votes) ==
    IF action = "buy" THEN RoundDiv(buy_votes * 100 * 100, 3)
    ELSE IF action = "sell" THEN RoundDiv(sell_votes * 100 * 100, 3)
    ELSE 50 * 100

\* {"conservative": 0.05, ...}.get(risk_tolerance, 0.08), in percent
risk_multiplier(risk_tolerance) ==
    Get([conservative |-> 5, moderate |-> 8, aggressive |-> 12], risk_tolerance, 8)

reward_multiplier(risk_tolerance) ==
    Get([conservative |-> 10, moderate |-> 16, aggressive |-> 24], risk_tolerance, 16)

calculate_price_targets(current_price, technical_analysis, action, risk_tolerance) ==
    IF current_price = 0 THEN EmptyDict
    ELSE LET indicators == IF Bool(technical_analysis)
                           THEN Get(technical_analysis, "indicators", EmptyDict)
                           ELSE EmptyDict
             bollinger == Get(indicators, "bollinger_bands", EmptyDict)
             lower_band == Get(bollinger, "lower_band", 0)
             upper_band == Get(bollinger, "upper_band", 0)
         IN IF action = "buy"
            THEN LET entry_price == RoundDiv(current_price * 98, 100)
                     stop_loss ==
                        IF lower_band # 0 THEN RoundDiv(lower_band * 98, 100)
                        ELSE RoundDiv(current_price * (100 - risk_multiplier(risk_tolerance)), 100)
                     target_price ==
                        IF upper_band # 0 THEN RoundDiv(upper_band * 102, 100)
                        ELSE RoundDiv(current_price * (100 + reward_multiplier(risk_tolerance)), 100)
                 IN [entry_price |-> entry_price,
                     stop_loss |-> stop_loss,
                     target_price |-> target_price,
                     risk_amount |-> entry_price - stop_loss,
                     reward_amount |-> target_price - entry_price,
                     risk_reward_ratio |->
                        IF entry_price - stop_loss > 0
                        THEN RoundDiv((target_price - entry_price) * 100,
                                      entry_price - stop_loss)
                        ELSE 0]
            ELSE IF action = "sell"
            THEN [exit_price |-> current_price, stop_loss |-> None, target_price |-> None]
            ELSE [support_level |->
                     IF "lower_band" \in DOMAIN bollinger THEN lower_band
                     ELSE RoundDiv(current_price * 95, 100),
                  resistance_level |->
                     IF "upper_band" \in DOMAIN bollinger THEN upper_band
                     ELSE RoundDiv(current_price * 105, 100),
                  current_price |-> current_price]

calculate_time_horizon(action, risk_tolerance) ==
    IF action = "buy"
    THEN IF risk_tolerance = "conservative" THEN "Long-term (6-12 months)"
         ELSE IF risk_tolerance = "aggressive" THEN "Short-term (1-3 months)"
         ELSE "Medium-term (3-6 months)"
    ELSE IF action = "sell" THEN "Immediate"
    ELSE "Ongoing monitoring"

\* one scenario per amount; of each scenario the investment and the entry
\* price are kept
generate_investment_scenarios(current_price, price_targets, action) ==
    IF action # "buy" \/ DOMAIN price_targets = {} \/ current_price = 0 THEN EmptyDict
    ELSE IF Get(price_targets, "target_price", 0) = 0 THEN EmptyDict
    ELSE LET entry_price == Get(price_targets, "entry_price", current_price)
             scenario(amount) == [investment |-> amount, entry_price |-> entry_price]
         IN [invest_1000 |-> scenario(1000), invest_5000 |-> scenario(5000),
             invest_10000 |-> scenario(10000)]

synthesize(technical_analysis, fundamental_analysis, sentiment_analysis, user_risk_tolerance) ==
    LET current_price == extract_current_price(technical_analysis)
        tech_signal == extract_technical_signal(technical_analysis)
        fund_signal == extract_fundamental_signal(fundamental_analysis)
        sent_signal == extract_sentiment_signal(sentiment_analysis)
        signals == <<tech_signal, fund_signal, sent_signal>>
        buy_votes == Votes(signals, "buy")
        sell_votes == Votes(signals, "sell")
        action == ResolveAction(buy_votes, sell_votes)
        confidence == ResolveConfidence(action, buy_votes, sell_votes)
        price_targets == calculate_price_targets(current_price, technical_analysis,
                                                 action, user_risk_tolerance)
    IN [action |-> action,
        confidence |-> confidence,
        price_targets |-> price_targets,
        time_horizon |-> calculate_time_horizon(action, user_risk_tolerance),
        investment_scenarios |->
            generate_investment_scenarios(current_price, price_targets, action),
        signals |-> [technical |-> tech_signal, fundamental |-> fund_signal,
                     sentiment |-> sent_signal]]

-----------------------------------------------------------------------------
(* The nodes of the workflow. A node gets what its agent's constructor and *)
(* tool did in this run and returns the update to merge into the state,    *)
(* or the exception it let through.                                        *)

Stages == {"technical", "fundamental", "sentiment", "recommendation"}

\* [agent |-> constructor succeeded, tool |-> what the tool call gave]
Outcome(agent, tool) == [agent |-> agent, tool |-> tool]

FailOutcomes(tool_errors) ==
    {Outcome(FALSE, None)} \cup {Outcome(TRUE, r) : r \in tool_errors}

OkOutcomes(tool_ok) == {Outcome(TRUE, r) : r \in tool_ok}

\* what a stage does in a run where `must_fail' says whether it is made to fail
OutcomesOfStage(n, must_fail) ==
    CASE n = "technical" ->
            IF must_fail THEN FailOutcomes(TechToolErrors) ELSE OkOutcomes(TechToolOk)
      [] n = "fundamental" ->
            IF must_fail THEN FailOutcomes(FundToolErrors) ELSE OkOutcomes(FundToolOk)
      [] n = "sentiment" ->
            IF must_fail THEN FailOutcomes(SentToolErrors) ELSE OkOutcomes(SentToolOk)
      [] n = "recommendation" ->
            IF must_fail THEN {Outcome(FALSE, None)} ELSE {Outcome(TRUE, None)}

AgentInitFailed == Exception("agent could not be constructed")

\* the node without its try/except
technical_analysis_node_NoExcept(st, o) ==
    LET res == IF o.agent THEN TechnicalAnalyze(o.tool) ELSE AgentInitFailed
    IN IF IsException(res) THEN res ELSE [tech_analysis |-> res]

technical_analysis_node(st, o) ==
    LET res == IF o.agent THEN TechnicalAnalyze(o.tool) ELSE AgentInitFailed
    IN IF IsException(res)
       THEN [tech_analysis |-> [error |-> res.exception, agent |-> "TechnicalAnalyst"],
             errors |-> <<"Technical analysis failed">>]
       ELSE [tech_analysis |-> res]

fundamental_analysis_node(st, o) ==
    LET res == IF o.agent THEN FundamentalAnalyze(o.tool) ELSE AgentInitFailed
    IN IF IsException(res)
       THEN [fund_analysis |-> [error |-> res.exception, agent |-> "FundamentalAnalyst"],
             errors |-> <<"Fundamental analysis failed">>]
       ELSE [fund_analysis |-> res]

sentiment_analysis_node(st, o) ==
    LET res == IF o.agent THEN SentimentAnalyze(o.tool) ELSE AgentInitFailed
    IN IF IsException(res)
       THEN [sent_analysis |-> [error |-> res.exception, agent |-> "SentimentAnalyst"],
             errors |-> <<"Sentiment analysis failed">>]
       ELSE [sent_analysis |-> res]

recommendation_node(st, o) ==
    LET res == IF o.agent
               THEN synthesize(st.tech_analysis, st.fund_analysis, st.sent_analysis,
                               Get(st, "user_risk_tolerance", "moderate"))
               ELSE AgentInitFailed
    IN IF IsException(res)
       THEN [final_recommendation |->
                [error |-> res.exception, agent |-> "RecommendationSynthesizer"],
             errors |-> <<"Recommendation synthesis failed">>]
       ELSE [final_recommendation |-> res]

\* LangGraph's merge of a node's update: `errors' accumulates (operator.add),
\* every other key is overwritten
Merge(st, update) ==
    [k \in DOMAIN st |->
        IF k \notin DOMAIN update THEN st[k]
        ELSE IF k = "errors" THEN st[k] \o update[k]
        ELSE update[k]]

-----------------------------------------------------------------------------
(* create_stock_analysis_graph and analyze_stock *)

END == "__end__"

EntryPoint == "technical"

\* fundamental and sentiment both hang off technical
Edges_FanOut ==
    { <<"technical", "fundamental">>, <<"technical", "sentiment">>,
      <<"fundamental", "recommendation">>, <<"sentiment", "recommendation">>,
      <<"recommendation", END>> }

Edges ==
    { <<"technical", "fundamental">>, <<"fundamental", "sentiment">>,
      <<"sentiment", "recommendation">>, <<"recommendation", END>> }

\* the nodes the finished ones of a step trigger
Successors(done) == {e[2] : e \in {f \in Edges : f[1] \in done}} \ {END}

initial_state(user_risk_tolerance) ==
    [symbol |-> Symbol,
     user_risk_tolerance |-> user_risk_tolerance,
     tech_analysis |-> None,
     fund_analysis |-> None,
     sent_analysis |-> None,
     final_recommendation |-> None,
     errors |-> <<>>]

FetchIdle ==
    /\ available = FALSE
    /\ redisUp = FALSE
    /\ redis_store = <<>>
    /\ fallback_cache = <<>>
    /\ now = 0
    /\ fetch = Idle
    /\ nextId = 1
    /\ hitlog = <<>>
    /\ ttls = NoTtls

\* analyze_stock has built the graph and the initial state
InitPipeline ==
    /\ FetchIdle
    /\ NoRanking
    /\ NoScoring
    /\ NoBatch
    /\ forced \in SUBSET Stages
    /\ \E r \in RiskTolerances : state = initial_state(r)
    /\ graph = [NoGraph EXCEPT !.todo = {EntryPoint}]
    /\ trace = <<>>
    /\ result = None

\* The runner starts a node of the current step
NodeStart(n) ==
    /\ n \in graph.todo
    /\ graph' = [graph EXCEPT !.todo = @ \ {n}, !.running = @ \cup {n}]
    /\ trace' = Append(trace, <<"start", n>>)
    /\ UNCHANGED <<state, forced, result>>
    /\ UNCHANGED notPipeVars

\* A running node returns (or raises); when the step's last node is back,
\* the runner takes the edges to the next step
NodeFinish(n, update) ==
    /\ n \in graph.running
    /\ IF IsException(update)
       THEN /\ graph' = [NoGraph EXCEPT !.raised = TRUE]
            /\ trace' = Append(trace, <<"raise", n>>)
            /\ state' = state
       ELSE LET running == graph.running \ {n}
                done == graph.done \cup {n}
            IN /\ state' = Merge(state, update)
               /\ trace' = Append(trace, <<"finish", n>>)
               /\ graph' = IF graph.todo = {} /\ running = {}
                           THEN [NoGraph EXCEPT !.todo = Successors(done)]
                           ELSE [graph EXCEPT !.running = running, !.done = done]
    /\ UNCHANGED <<forced, result>>
    /\ UNCHANGED notPipeVars

TechnicalNode ==
    \E o \in OutcomesOfStage("technical", "technical" \in forced) :
        NodeFinish("technical", technical_analysis_node(state, o))

FundamentalNode ==
    \E o \in OutcomesOfStage("fundamental", "fundamental" \in forced) :
        NodeFinish("fundamental", fundamental_analysis_node(state, o))

SentimentNode ==
    \E o \in OutcomesOfStage("sentiment", "sentiment" \in forced) :
        NodeFinish("sentiment", sentiment_analysis_node(state, o))

RecommendationNode ==
    \E o \in OutcomesOfStage("recommendation", "recommendation" \in forced) :
        NodeFinish("recommendation", recommendation_node(state, o))

\* graph.ainvoke is back: analyze_stock returns the final state, or the
\* exception goes to its caller
AnalyzeReturn ==
    /\ IsNone(result)
    /\ ~IsNone(state)
    /\ graph.todo = {} /\ graph.running = {}
    /\ result' = IF graph.raised THEN Exception("graph run failed")
                 ELSE [symbol |-> state.symbol,
                       final_recommendation |-> Get(state, "final_recommendation", None),
                       analyses |->
                          [technical |-> Get(state, "tech_analysis", None),
                           fundamental |-> Get(state, "fund_analysis", None),
                           sentiment |-> Get(state, "sent_analysis", None)],
                       metadata |->
                          [errors |-> Get(state, "errors", <<>>),
                           user_risk_tolerance |-> state.user_risk_tolerance]]
    /\ UNCHANGED <<state, graph, trace, forced>>
    /\ UNCHANGED notPipeVars

NextPipeline ==
    \/ \E n \in Stages : NodeStart(n)
    \/ TechnicalNode
    \/ FundamentalNode
    \/ SentimentNode
    \/ RecommendationNode
    \/ AnalyzeReturn

SpecPipeline == InitPipeline /\ [][NextPipeline]_vars

-----------------------------------------------------------------------------
(* synthesize on its own: the three analyses are any the method accepts *)

TechInputs ==
    {None, EmptyDict, [error |-> "failed", agent |-> "TechnicalAnalyst"]}
        \cup {TechnicalAnalyze(r) : r \in TechToolOk}

FundInputs ==
    {None, [error |-> "failed", agent |-> "FundamentalAnalyst"]}
        \cup {FundamentalAnalyze(r) : r \in FundToolOk \cup FundToolErrors}

SentInputs ==
    {None, [error |-> "failed", agent |-> "SentimentAnalyst"]}
        \cup {SentimentAnalyze([symbol |-> Symbol, overall_sentiment |-> s])
                : s \in {"positive", "negative", "neutral"}}

InitSynth ==
    /\ FetchIdle
    /\ NoRanking
    /\ NoScoring
    /\ NoBatch
    /\ forced = {}
    /\ \E r \in RiskTolerances, t \in TechInputs, f \in FundInputs, s \in SentInputs :
          state = [initial_state(r) EXCEPT !.tech_analysis = t,
                                           !.fund_analysis = f,
                                           !.sent_analysis = s]
    /\ graph = [NoGraph EXCEPT !.running = {"recommendation"}]
    /\ trace = <<>>
    /\ result = None

NextSynth == RecommendationNode

SpecSynth == InitSynth /\ [][NextSynth]_vars


-----------------------------------------------------------------------------
(* Claims about the pipeline and the synthesis *)

AnalysisStages == {"technical", "fundamental", "sentiment"}

Finished == {trace[i][2] : i \in {j \in DOMAIN trace : trace[j][1] = "finish"}}

\* C5: whichever non-empty subset of {technical, fundamental, sentiment} is
\* made to fail, analyze_stock returns a result (it does not raise), all
\* four stages have run to completion, and the final recommendation carries
\* an action in {buy, sell, hold}.
C5_PipelineDoesNotAbort ==
    (/\ ~IsNone(result)
     /\ forced \cap AnalysisStages # {}
     /\ "recommendation" \notin forced)
        => /\ ~IsException(result)
           /\ Finished = Stages
           /\ "action" \in DOMAIN result.final_recommendation
           /\ result.final_recommendation.action \in Signals

\* All three analysis stages failed and there is a recommendation
C5_Witness ==
    /\ ~IsNone(result)
    /\ forced = AnalysisStages
    /\ "error" \in DOMAIN result.analyses.technical
    /\ "error" \in DOMAIN result.analyses.fundamental
    /\ "error" \in DOMAIN result.analyses.sentiment
    /\ Len(result.metadata.errors) = 3
    /\ result.final_recommendation.action = "hold"

StrictOrder ==
    << <<"start", "technical">>, <<"finish", "technical">>,
       <<"start", "fundamental">>, <<"finish", "fundamental">>,
       <<"start", "sentiment">>, <<"finish", "sentiment">>,
       <<"start", "recommendation">>, <<"finish", "recommendation">> >>

\* C6: the starts and finishes of the stages always form a prefix of
\* technical, fundamental, sentiment, synthesis, each started once and only
\* after the one before finished; a run that has returned has gone through
\* all of them, also when stages failed.
C6_StagesInStrictOrder ==
    /\ Len(trace) <= Len(StrictOrder)
    /\ trace = SubSeq(StrictOrder, 1, Len(trace))
    /\ ~IsNone(result) => trace = StrictOrder

\* A run whose technical and sentiment stages failed went through all four
C6_Witness ==
    /\ ~IsNone(result)
    /\ forced = {"technical", "sentiment"}
    /\ "error" \in DOMAIN state.tech_analysis
    /\ "error" \notin DOMAIN state.fund_analysis
    /\ trace = StrictOrder

\* the recommendation synthesize produced, if it has
Synthesized ==
    /\ ~IsNone(state)
    /\ "action" \in DOMAIN state.final_recommendation

\* how many of the three signals of the recommendation are v
Cast(v) ==
    Cardinality({k \in AnalysisStages : state.final_recommendation.signals[k] = v})

\* C7: the action is buy iff at least 2 of the 3 signals are buy, sell iff
\* at least 2 are sell, and hold otherwise.
C7_MajorityVote ==
    Synthesized =>
        LET action == state.final_recommendation.action
        IN /\ \A k \in AnalysisStages :
                 state.final_recommendation.signals[k] \in Signals
           /\ action = "buy" <=> Cast("buy") >= 2
           /\ action = "sell" <=> Cast("sell") >= 2
           /\ action = "hold" <=> (Cast("buy") < 2 /\ Cast("sell") < 2)

\* technical buy, fundamental hold, sentiment buy: the action is buy
C7_Witness ==
    /\ Synthesized
    /\ state.final_recommendation.signals =
          [technical |-> "buy", fundamental |-> "hold", sentiment |-> "buy"]
    /\ state.tech_analysis.indicators.summary.overall_signal = "buy"
    /\ state.sent_analysis.overall_sentiment = "positive"
    /\ state.final_recommendation.action = "buy"

\* C8 as stated: the confidence is the share of the three signals that
\* equal the resolved action, buy, sell or hold, times 100 (to two
\* decimals, in hundredths).
C8_ConfidenceIsVoteShare ==
    Synthesized =>
        state.final_recommendation.confidence =
            RoundDiv(Cast(state.final_recommendation.action) * 100 * 100, 3)

\* C8 amended: the confidence is that share when the action is buy or sell,
\* and 50 whenever the action is hold.
C8_ConfidenceShareOrFifty ==
    Synthesized =>
        LET action == state.final_recommendation.action
        IN state.final_recommendation.confidence =
              IF action \in {"buy", "sell"}
              THEN RoundDiv(Cast(action) * 100 * 100, 3)
              ELSE 50 * 100

\* three hold signals: the action is hold, the confidence 50 and not 100
C8_Witness ==
    /\ Synthesized
    /\ Cast("hold") = 3
    /\ state.final_recommendation.action = "hold"
    /\ state.final_recommendation.confidence = 50 * 100


-----------------------------------------------------------------------------
(* The ranking phase of RecommendationService.get_top_stocks, with         *)
(* MarketRecommendationAgent. Scores are in hundredths.                    *)

MaxStocks == 2
MaxRankings == 2
MaxLimit == 2

\* "rank": None of a result the ranking agent has not touched
NoRank == -1

\* ranking.get("rank", 999)
DEFAULT_RANK == 999

\* INDIA_NSE_STOCKS, in list order
StockList == <<"RELIANCE", "TCS", "HDFCBANK", "INFY", "ICICIBANK", "HINDUNILVR", "ITC", "SBIN">>

Scores == {60 * 100, 70 * 100}

\* the action and confidence synthesize gives a stock
Recs ==
    { [action |-> "buy", confidence |-> ResolveConfidence("buy", 2, 0)],
      [action |-> "sell", confidence |-> ResolveConfidence("sell", 0, 2)],
      [action |-> "hold", confidence |-> ResolveConfidence("hold", 1, 1)] }

\* what _analyze_stock_for_recommendation returns for a stock that passed
\* the score filter
StockResult(symbol, score, rec) ==
    [symbol |-> symbol,
     score |-> score,
     recommendation |-> rec.action,
     confidence |-> rec.confidence,
     rank |-> NoRank,
     ai_reasoning |-> "None"]

\* {**d, **new}
Override(d, new) == new @@ d

\* list.sort(key=...): stable, ascending in the key; `pairs' are <<key, item>>
RECURSIVE SortPairs(_)
SortPairs(pairs) ==
    IF Len(pairs) = 0 THEN <<>>
    ELSE LET n == Len(pairs)
             head == SortPairs(SubSeq(pairs, 1, n - 1))
             x == pairs[n]
             k == Cardinality({i \in 1..Len(head) : head[i][1] <= x[1]})
         IN SubSeq(head, 1, k) \o <<x>> \o SubSeq(head, k + 1, Len(head))

Items(pairs) == [i \in 1..Len(pairs) |-> pairs[i][2]]

\* sort(key=lambda x: x.get("rank", 999))
SortByRank(list) ==
    Items(SortPairs([i \in 1..Len(list) |-> <<Get(list[i], "rank", DEFAULT_RANK), list[i]>>]))

\* sort(key=lambda x: x.get(field, 0), reverse=True): equal keys keep their order
SortDescending(list, field) ==
    Items(SortPairs([i \in 1..Len(list) |-> <<0 - Get(list[i], field, 0), list[i]>>]))

\* the analysis_format get_top_stocks hands to the agent
analysis_format(r) ==
    [symbol |-> r.symbol,
     final_recommendation |->
        [action |-> Get(r, "recommendation", "hold"),
         confidence |-> Get(r, "confidence", 0)]]

\* the "simple scoring" of _fallback_ranking
fallback_score(analysis) ==
    LET final_rec == Get(analysis, "final_recommendation", EmptyDict)
        confidence == Get(final_rec, "confidence", 0)
        action == Get(final_rec, "action", "hold")
    IN IF action = "buy" THEN confidence
       ELSE IF action = "hold" THEN confidence \div 2
       ELSE 0

\* MarketRecommendationAgent._fallback_ranking
fallback_ranking(stock_analyses) ==
    LET scored_stocks ==
            [i \in 1..Len(stock_analyses) |->
                Override(stock_analyses[i],
                         [enhanced_score |-> fallback_score(stock_analyses[i]),
                          ai_reasoning |-> "Based on recommendation",
                          rank |-> 0])]
        sorted == SortDescending(scored_stocks, "enhanced_score")
    IN [i \in 1..Len(sorted) |-> [sorted[i] EXCEPT !.rank = i]]

\* The text of an oracle response, as a sequence of pieces: "{" and "}" are
\* the braces, "r" is the text of a rankings member ("rankings": [...]),
\* "n" is any other text (a number, when it stands alone)
Pieces == {"{", "}", "r", "n"}

\* str.find / str.rfind, 0-based, -1 when the piece is absent
Find(content, piece) ==
    LET at == {i \in 1..Len(content) : content[i] = piece}
    IN IF at = {} THEN -1 ELSE (CHOOSE i \in at : \A j \in at : i <= j) - 1

RFind(content, piece) ==
    LET at == {i \in 1..Len(content) : content[i] = piece}
    IN IF at = {} THEN -1 ELSE (CHOOSE i \in at : \A j \in at : i >= j) - 1

\* what json.loads gives that is not a dict
JsonScalar == [json_scalar |-> TRUE]
IsJsonScalar(v) == DOMAIN v = {"json_scalar"}

\* accepts every text: what it cannot read is an empty object
json_loads_Lenient(text, rankings) ==
    IF text = <<"{", "r", "}">> THEN [rankings |-> rankings] ELSE EmptyDict

\* json.loads: an object with or without the rankings member, a scalar, or
\* JSONDecodeError
json_loads(text, rankings) ==
    IF text = <<"{", "}">> THEN EmptyDict
    ELSE IF text = <<"{", "r", "}">> THEN [rankings |-> rankings]
    ELSE IF text = <<"n">> THEN JsonScalar
    ELSE Exception("JSONDecodeError")

\* the entries of the rankings array of a response
RankingEntries(symbols) ==
    [symbol : symbols \cup {"OTHER"}, rank : 1..MaxRankings]
        \cup [symbol : symbols \cup {"OTHER"}]

RankingLists(symbols) ==
    UNION {[1..n -> RankingEntries(symbols)] : n \in 0..MaxRankings}

\* llm_response.content, and the rankings array its "r" piece spells out
Response(content, rankings) ==
    [kind |-> "response", content |-> content, rankings |-> rankings]

\* what can come of asking the oracle: the agent cannot be built, the call
\* raises, or a response: plain text, an empty object, an object with rankings
OracleAnswers(symbols) ==
    {[kind |-> "agent_init_raises"], [kind |-> "call_raises"],
     Response(<<"n", "n">>, <<>>), Response(<<"{", "}">>, <<>>)}
        \cup {Response(<<"{", "r", "}">>, l) : l \in RankingLists(symbols)}

EnhancedScoreOfOracle == 90 * 100

\* MarketRecommendationAgent._parse_llm_ranking
\* the first part of _parse_llm_ranking: cut the text from its first "{" to
\* its last "}" and parse it, or parse the whole text
extract_json(answer) ==
    LET content == answer.content
        json_start == Find(content, "{")
        json_end == RFind(content, "}") + 1
    IN IF json_start >= 0 /\ json_end > json_start
       THEN json_loads(SubSeq(content, json_start + 1, json_end), answer.rankings)
       ELSE json_loads(content, answer.rankings)

parse_llm_ranking(answer, stock_analyses) ==
    LET parsed == extract_json(answer)
    IN
    IF IsException(parsed) \/ IsJsonScalar(parsed) THEN fallback_ranking(stock_analyses)
    ELSE LET rankings == Get(parsed, "rankings", <<>>)
             symbols == {stock_analyses[i].symbol : i \in 1..Len(stock_analyses)}
             analysis_map ==
                 [s \in symbols |->
                     stock_analyses[CHOOSE i \in 1..Len(stock_analyses) :
                                       /\ stock_analyses[i].symbol = s
                                       /\ \A j \in (i + 1)..Len(stock_analyses) :
                                             stock_analyses[j].symbol # s]]
             known == SelectSeq(rankings, LAMBDA r : r.symbol \in symbols)
             enhanced_stocks ==
                 [i \in 1..Len(known) |->
                     Override(analysis_map[known[i].symbol],
                              [enhanced_score |-> EnhancedScoreOfOracle,
                               ai_reasoning |-> "reasoning of the oracle",
                               rank |-> Get(known[i], "rank", DEFAULT_RANK)])]
         IN SortByRank(enhanced_stocks)

enhance_with_market_context(ranked_stocks) ==
    [i \in 1..Len(ranked_stocks) |->
        Override(ranked_stocks[i],
                 [market_analysis |-> [ranking_method |-> "ai_powered_comparative_analysis"]])]

\* MarketRecommendationAgent.rank_stocks
rank_stocks(answer, stock_analyses) ==
    IF answer.kind = "call_raises" THEN fallback_ranking(stock_analyses)
    ELSE enhance_with_market_context(parse_llm_ranking(answer, stock_analyses))

\* get_top_stocks: merge the agent's ranking back into the results, by symbol
MergeRanking(ai_list, results) ==
    LET symbols == {results[i].symbol : i \in 1..Len(results)}
        result_map ==
            [s \in symbols |->
                results[CHOOSE i \in 1..Len(results) :
                           /\ results[i].symbol = s
                           /\ \A j \in (i + 1)..Len(results) : results[j].symbol # s]]
        known == SelectSeq(ai_list, LAMBDA a : a.symbol \in symbols)
    IN [i \in 1..Len(known) |->
           Override(result_map[known[i].symbol],
                    [score |-> Get(known[i], "enhanced_score",
                                   Get(result_map[known[i].symbol], "score", 0)),
                     rank |-> Get(known[i], "rank", DEFAULT_RANK),
                     ai_reasoning |-> Get(known[i], "ai_reasoning", "None")])]

\* The analyses are in: the results that passed the filter, in list order
InitRank ==
    /\ FetchIdle
    /\ NoRun
    /\ NoScoring
    /\ NoBatch
    /\ \E picks \in [1..MaxStocks -> [valid : BOOLEAN, score : Scores, rec : Recs]] :
          LET chosen == SelectSeq([i \in 1..MaxStocks |-> i], LAMBDA i : picks[i].valid)
          IN valid_results =
                [j \in 1..Len(chosen) |->
                    StockResult(StockList[chosen[j]], picks[chosen[j]].score,
                                picks[chosen[j]].rec)]
    /\ limit \in 1..MaxLimit
    /\ rank_pc = "ready"
    /\ oracle = [kind |-> "None"]
    /\ ranked = <<>>
    /\ top_stocks = <<>>

\* No valid analysis: get_top_stocks returns the empty list
ReturnEmpty ==
    /\ rank_pc = "ready"
    /\ Len(valid_results) = 0
    /\ rank_pc' = "done"
    /\ UNCHANGED <<valid_results, limit, oracle, ranked, top_stocks>>
    /\ UNCHANGED notRankVars

\* The try block of get_top_stocks and its except clause: build the agent,
\* rank, merge, sort by rank, cut to the limit; or sort the results by
\* score and cut
RankAndReturn(answer) ==
    /\ rank_pc = "ready"
    /\ Len(valid_results) > 0
    /\ oracle' = answer
    /\ LET stock_analyses == [i \in 1..Len(valid_results) |->
                                 analysis_format(valid_results[i])]
           all == IF answer.kind = "agent_init_raises"
                  THEN SortDescending(valid_results, "score")
                  ELSE SortByRank(MergeRanking(rank_stocks(answer, stock_analyses),
                                               valid_results))
       IN /\ ranked' = all
          /\ top_stocks' = SubSeq(all, 1, IF limit < Len(all) THEN limit ELSE Len(all))
    /\ rank_pc' = "done"
    /\ UNCHANGED <<valid_results, limit>>
    /\ UNCHANGED notRankVars

NextRank ==
    \/ ReturnEmpty
    \/ /\ rank_pc = "ready"
       /\ \E answer \in OracleAnswers({valid_results[i].symbol : i \in 1..Len(valid_results)}) :
             RankAndReturn(answer)

SpecRank == InitRank /\ [][NextRank]_vars

\* The ranking phase over every short response text
MaxContent == 4

Contents == UNION {[1..n -> Pieces] : n \in 0..MaxContent}

ShortLists(symbols) == UNION {[1..n -> RankingEntries(symbols)] : n \in 0..1}

TextAnswers(symbols) ==
    {Response(c, IF "rankings" \in DOMAIN extract_json(Response(c, l)) THEN l ELSE <<>>)
        : c \in Contents, l \in ShortLists(symbols)}

NextParse ==
    \/ ReturnEmpty
    \/ /\ rank_pc = "ready"
       /\ \E answer \in TextAnswers({valid_results[i].symbol : i \in 1..Len(valid_results)}) :
             RankAndReturn(answer)

SpecParse == InitRank /\ [][NextParse]_vars


-----------------------------------------------------------------------------
(* Claims about the ranking, checked under SpecRank *)

\* the oracle failed: the agent could not be built, its call raised, or its
\* answer could not be parsed
\* the text from the first "{" to the last "}" of a response is there and
\* is an object, with or without the rankings member
ParsesAsPayload(content) ==
    \E i, j \in 1..Len(content) :
        /\ i < j
        /\ content[i] = "{" /\ \A k \in 1..(i - 1) : content[k] # "{"
        /\ content[j] = "}" /\ \A k \in (j + 1)..Len(content) : content[k] # "}"
        /\ SubSeq(content, i, j) \in {<<"{", "}">>, <<"{", "r", "}">>}

OracleFailed ==
    \/ oracle.kind \in {"agent_init_raises", "call_raises"}
    \/ oracle.kind = "response" /\ ~ParsesAsPayload(oracle.content)

\* the composite score stamped on a symbol before the ranking
CompositeScore(symbol) ==
    valid_results[CHOOSE i \in 1..Len(valid_results) :
                     valid_results[i].symbol = symbol].score

\* where a symbol stood in the ranker's input
InputPosition(symbol) ==
    CHOOSE i \in 1..Len(valid_results) : valid_results[i].symbol = symbol

\* C9: when the oracle failed, the list before the cut has one entry per
\* scored instrument and their ranks are exactly 1..N.
C9_FallbackRanksOneToN ==
    (rank_pc = "done" /\ OracleFailed) =>
        /\ Len(ranked) = Len(valid_results)
        /\ {ranked[i].rank : i \in 1..Len(ranked)} = 1..Len(valid_results)

\* C10: when the oracle failed, the list is in descending order of the
\* composite score, and entries of equal score are in input order.
C10_FallbackOrderedByScore ==
    (rank_pc = "done" /\ OracleFailed) =>
        \A i, j \in 1..Len(ranked) :
            i < j =>
                \/ CompositeScore(ranked[i].symbol) > CompositeScore(ranked[j].symbol)
                \/ /\ CompositeScore(ranked[i].symbol) = CompositeScore(ranked[j].symbol)
                   /\ InputPosition(ranked[i].symbol) < InputPosition(ranked[j].symbol)

\* the symbols and ranks of a ranked list, in order
Ranking(list) == [i \in 1..Len(list) |-> <<list[i].symbol, list[i].rank>>]

\* C14: when the text from the first "{" to the last "}" of the response is
\* absent or is not the payload object, the ranking that comes back is the
\* fallback ranking of the input (and the call has returned).
C14_ParseErrorGivesFallback ==
    (/\ rank_pc = "done"
     /\ oracle.kind = "response"
     /\ ~ParsesAsPayload(oracle.content))
        => Ranking(ranked) =
              Ranking(fallback_ranking([i \in 1..Len(valid_results) |->
                                           analysis_format(valid_results[i])]))

\* a response with a stray brace before its object: two stocks come back in
\* the fallback order, the second of the input first
C14_Witness ==
    /\ rank_pc = "done"
    /\ oracle.kind = "response"
    /\ oracle.content = <<"{", "{", "r", "}">>
    /\ Len(ranked) = 2
    /\ ranked[1].symbol = valid_results[2].symbol
    /\ ranked[1].rank = 1 /\ ranked[2].rank = 2

\* the symbols the ranker was given
InputSymbols == {valid_results[i].symbol : i \in 1..Len(valid_results)}

\* C11: after an oracle response, the returned list is strictly ascending
\* in rank, so no two of its entries share a rank.
C11_StrictlyAscendingRanks ==
    (rank_pc = "done" /\ oracle.kind = "response") =>
        \A i, j \in 1..Len(top_stocks) :
            i < j => top_stocks[i].rank < top_stocks[j].rank

\* C12: after an oracle response, every input instrument is in the ranked
\* list exactly once, or the ranker fell back to the deterministic order.
C12_EveryInstrumentOnce ==
    (rank_pc = "done" /\ oracle.kind = "response") =>
        \/ \A s \in InputSymbols :
              Cardinality({i \in 1..Len(ranked) : ranked[i].symbol = s}) = 1
        \/ OracleFailed

\* C13: with at least one instrument past the score filter, the returned
\* list is not empty, whatever the oracle answered.
C13_NonEmptyAnswer ==
    (rank_pc = "done" /\ Len(valid_results) > 0) => Len(top_stocks) > 0

\* C15: every instrument of the final list carries the score the composite
\* scorer stamped on it, on the oracle path and on the fallback path.
C15_ScoreUnchanged ==
    rank_pc = "done" =>
        \A i \in 1..Len(top_stocks) :
            top_stocks[i].score = CompositeScore(top_stocks[i].symbol)

-----------------------------------------------------------------------------
(* Scoring and the score filter: _analyze_stock_for_recommendation         *)
(* Scores, confidences and P/E values are in hundredths; a sentiment score *)
(* is in hundredths of the 0..1 scale.                                     *)

MaxCalls == 2

MinOf(a, b) == IF a < b THEN a ELSE b

\* a dict that is there, not empty, and carries no error
Usable(analysis) == Bool(analysis) /\ "error" \notin DOMAIN analysis

\* fund_analysis.get("data_source") == "fallback" or the same of price_data
UsingFallback(fund_analysis, price_data) ==
    \/ Bool(fund_analysis) /\ Get(fund_analysis, "data_source", "None") = "fallback"
    \/ Bool(price_data) /\ Get(price_data, "data_source", "None") = "fallback"

\* base recommendation score, 0-40 points
ActionPoints_SellPenalty(final_rec, using_fallback) ==
    LET action == Get(final_rec, "action", "hold")
        confidence == Get(final_rec, "confidence", 0)
    IN IF action = "strong_buy" THEN RoundDiv(40 * confidence, 100)
       ELSE IF action = "buy" THEN RoundDiv(30 * confidence, 100)
       ELSE IF action = "hold"
       THEN RoundDiv((IF using_fallback THEN 20 ELSE 15) * confidence, 100)
       ELSE 0 - RoundDiv(40 * confidence, 100)

ActionPoints(final_rec, using_fallback) ==
    LET action == Get(final_rec, "action", "hold")
        confidence == Get(final_rec, "confidence", 0)
    IN IF action = "strong_buy" THEN RoundDiv(40 * confidence, 100)
       ELSE IF action = "buy" THEN RoundDiv(30 * confidence, 100)
       ELSE IF action = "hold"
       THEN RoundDiv((IF using_fallback THEN 20 ELSE 15) * confidence, 100)
       ELSE 0

\* technical analysis score, 0-25 points
TechPoints(tech_analysis, using_fallback) ==
    LET tech_indicators == IF Usable(tech_analysis)
                           THEN Get(tech_analysis, "technical_details", EmptyDict)
                           ELSE EmptyDict
        tech_summary == Get(tech_indicators, "summary", EmptyDict)
        tech_signal == Get(tech_summary, "overall_signal", "hold")
    IN IF tech_signal = "buy" THEN 25 * 100
       ELSE IF tech_signal = "hold" THEN (IF using_fallback THEN 15 ELSE 12) * 100
       ELSE 5 * 100

\* fundamental analysis score, 0-20 points; a pe_ratio of None is a missing
\* key here, and like 0 it takes the `else' of `if pe_ratio'
FundPoints(fund_analysis) ==
    LET fund_details == IF Usable(fund_analysis)
                        THEN Get(fund_analysis, "fundamental_details", EmptyDict)
                        ELSE EmptyDict
        pe_ratio == IF Bool(fund_details)
                    THEN Get(Get(fund_details, "valuation_metrics", EmptyDict), "pe_ratio", 0)
                    ELSE 0
    IN IF pe_ratio # 0
       THEN IF 10 * 100 <= pe_ratio /\ pe_ratio <= 25 * 100 THEN 20 * 100
            ELSE IF 5 * 100 <= pe_ratio /\ pe_ratio < 10 * 100 THEN 15 * 100
            ELSE IF 25 * 100 < pe_ratio /\ pe_ratio <= 35 * 100 THEN 10 * 100
            ELSE 5 * 100
       ELSE 10 * 100

\* sentiment score, 0-10 points
SentPoints(sent_analysis) ==
    LET sent_details == Get(sent_analysis, "sentiment_details", EmptyDict)
        sentiment_score == Get(sent_details, "overall_sentiment_score", 0)
    IN IF sentiment_score > 60 THEN 10 * 100
       ELSE IF sentiment_score > 40 THEN 7 * 100
       ELSE IF sentiment_score > 20 THEN 4 * 100
       ELSE 2 * 100

\* price momentum, 0-5 points; recent_change is a percentage of a positive price
MomentumPoints(price_data) ==
    LET historical == Get(price_data, "historical_prices", <<>>)
        n == Len(historical)
    IN IF n >= 2
       THEN IF (historical[n] - historical[n - 1]) * 100 > 2 * historical[n - 1] THEN 5 * 100
            ELSE IF historical[n] - historical[n - 1] > 0 THEN 3 * 100
            ELSE 1 * 100
       ELSE 0

\* RecommendationService._calculate_recommendation_score
calculate_recommendation_score(final_rec, tech_analysis, fund_analysis, sent_analysis, price_data) ==
    LET using_fallback == UsingFallback(fund_analysis, price_data)
    IN MinOf(ActionPoints(final_rec, using_fallback)
               + TechPoints(tech_analysis, using_fallback)
               + FundPoints(fund_analysis)
               + SentPoints(sent_analysis)
               + MomentumPoints(price_data),
             100 * 100)

\* min_score = 30 if using_fallback else 50
MinScore(using_fallback) == IF using_fallback THEN 30 * 100 ELSE 50 * 100

\* the minimal final_recommendation made from the technical analysis
TechnicalOnlyRec(tech_analysis) ==
    LET tech_summary == Get(Get(tech_analysis, "technical_details", EmptyDict),
                            "summary", EmptyDict)
        tech_signal == Get(tech_summary, "overall_signal", "hold")
    IN [action |-> IF tech_signal \in {"buy", "sell", "hold"} THEN tech_signal ELSE "hold",
        confidence |-> Get(tech_summary, "confidence", 50 * 100),
        risk_level |-> "medium"]

\* ---- what the awaits of the call can give

\* the four actions the scorer tells apart, at confidence 0, 50 and 100; a
\* failed synthesis; no recommendation
FinalRecs ==
    [action : {"strong_buy", "buy", "hold", "sell"}, confidence : {0, 50 * 100, 100 * 100}]
        \cup {[error |-> "synthesis failed"], EmptyDict}

\* analyses.technical: nothing, the node's error dict, what
\* TechnicalAnalysisAgent.analyze returns, and dicts with the key the
\* scorer reads
TechAnalyses ==
    {EmptyDict, [error |-> "Technical analysis failed"]}
        \cup {TechnicalAnalyze(r) : r \in {t \in TechToolOk : t.indicators.ema.current_price > 0}}
        \cup {[technical_details |-> [summary |-> [overall_signal |-> sig]]] : sig \in Signals}

\* P/E values on both sides of every limit of the scorer; 20.0 is the
\* fallback generator's
PERatios == {-5 * 100, 7 * 100, 20 * 100, 30 * 100, 50 * 100}

FundAnalyses ==
    {FundamentalAnalyze(d) : d \in FundToolErrors}
        \cup {FundamentalAnalyze([symbol |-> Symbol, analyzed_at |-> "t",
                                  fundamental_details |-> [valuation_metrics |-> vm],
                                  data_source |-> src])
                : vm \in {EmptyDict} \cup [pe_ratio : PERatios],
                  src \in {LiveSource("fundamental_data"), FallbackSource("fundamental_data")}}

SentAnalyses ==
    {EmptyDict}
        \cup {[sentiment_details |-> [overall_sentiment_score |-> v]] : v \in {10, 30, 50, 70}}

\* price histories under the key the scorer reads: none, one price, a rise
\* of 3%, a rise of 1%, a fall
Histories ==
    {<<>>, <<PriceCents>>, <<PriceCents, (PriceCents * 103) \div 100>>,
     <<PriceCents, (PriceCents * 101) \div 100>>, <<PriceCents, (PriceCents * 99) \div 100>>}

\* get_stock_price: a live payload or generate_fallback_data's, or nothing
PriceData ==
    {None, [current_price |-> 0, data_source |-> LiveSource("stock_price")]}
        \cup {[current_price |-> PriceCents, data_source |-> src, historical_prices |-> h]
                : src \in {LiveSource("stock_price"), FallbackSource("stock_price")},
                  h \in Histories}

InitScore ==
    /\ FetchIdle
    /\ NoRun
    /\ NoRanking
    /\ NoBatch
    /\ score_in \in [price_data : PriceData, final_rec : FinalRecs, tech : TechAnalyses,
                      fund : FundAnalyses, sent : SentAnalyses]
    /\ score_pc = "awaited"
    /\ scores = <<>>
    /\ min_score = 0
    /\ analysed = None

\* the final_recommendation the call scores: the analysis's own, or the
\* one made from the technical analysis when that one carries an error
ScoredRec(in) ==
    IF ~Bool(in.final_rec) \/ "error" \in DOMAIN in.final_rec
    THEN TechnicalOnlyRec(in.tech)
    ELSE in.final_rec

\* the call returns None before it scores
ReturnsEarly(in) ==
    \/ ~Bool(in.price_data)
    \/ Get(in.price_data, "current_price", 0) = 0
    \/ ~Bool(in.final_rec)
    \/ "error" \in DOMAIN in.final_rec /\ ~Usable(in.tech)

\* _analyze_stock_for_recommendation from its first check to its return
AnalyzeStockForRecommendation ==
    /\ score_pc = "awaited"
    /\ score_pc' = "done"
    /\ IF ReturnsEarly(score_in)
       THEN /\ analysed' = None
            /\ UNCHANGED <<scores, min_score>>
       ELSE LET final_rec == ScoredRec(score_in)
                score == calculate_recommendation_score(final_rec, score_in.tech,
                             score_in.fund, score_in.sent, score_in.price_data)
                using_fallback == UsingFallback(score_in.fund, score_in.price_data)
            IN /\ scores' = <<score>>
               /\ min_score' = MinScore(using_fallback)
               /\ analysed' = IF score < MinScore(using_fallback) THEN None
                              ELSE StockResult(Symbol, score, final_rec)
    /\ UNCHANGED score_in
    /\ UNCHANGED notScoreVars

\* _calculate_recommendation_score called once more with the same arguments
CalculateAgain ==
    /\ score_pc = "done"
    /\ Len(scores) \in 1..(MaxCalls - 1)
    /\ scores' = Append(scores,
                        calculate_recommendation_score(ScoredRec(score_in), score_in.tech,
                            score_in.fund, score_in.sent, score_in.price_data))
    /\ UNCHANGED <<score_in, score_pc, min_score, analysed>>
    /\ UNCHANGED notScoreVars

NextScore ==
    \/ AnalyzeStockForRecommendation
    \/ CalculateAgain

SpecScore == InitScore /\ [][NextScore]_vars

-----------------------------------------------------------------------------
(* The analysis batch of get_top_stocks: one task per stock, gathered on   *)
(* one event loop. A task runs on the loop's thread from one await that    *)
(* suspends it to the next; time.sleep and the synchronous yfinance and    *)
(* Redis calls inside the async tools keep the thread until they return.   *)

MaxInstruments == 4

\* asyncio.Semaphore(3)
SEMAPHORE_SLOTS == 3

Tasks == DOMAIN task

\* positions of a task that is inside `async with semaphore'
InProgress == {"fetch", "blocked", "awaiting"}

\* Semaphore.acquire does not wait
FreeSlot_Always(value) == value = value

FreeSlot(value) == value > 0

\* what a finished _analyze_stock_for_recommendation leaves in results
TaskOutcomes == {"result", "None", "exception"}

InitBatch ==
    /\ FetchIdle
    /\ NoRun
    /\ NoRanking
    /\ NoScoring
    /\ NoSide
    /\ \E n \in 1..MaxInstruments :
          /\ task = [w \in 1..n |-> "created"]
          /\ gathered = [w \in 1..n |-> "pending"]
          /\ stalls \in {{}} \cup {{w} : w \in 1..n}
    /\ sem = SEMAPHORE_SLOTS
    /\ thread = 0
    /\ batch_pc = "gathering"

\* analyze_with_limit starts: `async with semaphore' takes a slot, or the
\* task is parked among the semaphore's waiters
Acquire(w) ==
    /\ batch_pc = "gathering"
    /\ thread = 0
    /\ task[w] = "created"
    /\ IF FreeSlot(sem)
       THEN /\ sem' = sem - 1
            /\ task' = [task EXCEPT ![w] = "fetch"]
       ELSE /\ task' = [task EXCEPT ![w] = "waiting"]
            /\ UNCHANGED sem
    /\ UNCHANGED <<thread, stalls, gathered, batch_pc>>
    /\ UNCHANGED notBatchVars

\* a parked task is woken by a release and takes the slot
Wake(w) ==
    /\ batch_pc = "gathering"
    /\ thread = 0
    /\ task[w] = "waiting"
    /\ FreeSlot(sem)
    /\ sem' = sem - 1
    /\ task' = [task EXCEPT ![w] = "fetch"]
    /\ UNCHANGED <<thread, stalls, gathered, batch_pc>>
    /\ UNCHANGED notBatchVars

\* the task enters get_stock_price / get_fundamental_data: cache.get,
\* time.sleep(delay) and the yfinance request run on the loop's thread
BlockingCall(w) ==
    /\ batch_pc = "gathering"
    /\ thread = 0
    /\ task[w] = "fetch"
    /\ thread' = w
    /\ task' = [task EXCEPT ![w] = "blocked"]
    /\ UNCHANGED <<sem, stalls, gathered, batch_pc>>
    /\ UNCHANGED notBatchVars

\* the blocking calls return; the task goes on to an await that suspends it
\* (the model call of an agent) and gives the thread back to the loop
BlockingReturn(w) ==
    /\ batch_pc = "gathering"
    /\ thread = w
    /\ task[w] = "blocked"
    /\ thread' = 0
    /\ task' = [task EXCEPT ![w] = "awaiting"]
    /\ UNCHANGED <<sem, stalls, gathered, batch_pc>>
    /\ UNCHANGED notBatchVars

\* the awaited answer arrives, the loop resumes the task, the analysis
\* returns or raises, and `async with' releases the slot
Finish(w, outcome) ==
    /\ batch_pc = "gathering"
    /\ thread = 0
    /\ task[w] = "awaiting"
    /\ w \notin stalls
    /\ task' = [task EXCEPT ![w] = "done"]
    /\ sem' = sem + 1
    /\ gathered' = [gathered EXCEPT ![w] = outcome]
    /\ UNCHANGED <<thread, stalls, batch_pc>>
    /\ UNCHANGED notBatchVars

\* asyncio.gather without return_exceptions: the first exception of a task
\* is raised in the caller
gather_Propagating(outcomes) ==
    IF \E w \in DOMAIN outcomes : outcomes[w] = "exception"
    THEN Exception("stock analysis failed")
    ELSE [results |-> outcomes]

\* asyncio.gather(..., return_exceptions=True): an exception is a result
gather(outcomes) == [results |-> outcomes]

\* what _analyze_stock_for_recommendation returns for the w-th stock of the
\* list when it returns a result
ResultOf(w) ==
    StockResult(StockList[w], 60 * 100, [action |-> "hold", confidence |-> 50 * 100])

\* the filter loop: exceptions and missing results are counted and skipped
FilterValid(outcomes) ==
    LET kept == SelectSeq([w \in 1..Len(outcomes) |-> w],
                          LAMBDA w : outcomes[w] = "result")
    IN [j \in 1..Len(kept) |-> ResultOf(kept[j])]

\* asyncio.gather returns once every task is done; the results are filtered
\* and handed to the ranking phase
GatherReturns ==
    /\ batch_pc = "gathering"
    /\ thread = 0
    /\ \A w \in Tasks : task[w] = "done"
    /\ LET collected == gather(gathered)
       IN IF IsException(collected)
          THEN /\ batch_pc' = "raised"
               /\ UNCHANGED <<valid_results, rank_pc>>
          ELSE /\ batch_pc' = "returned"
               /\ valid_results' = FilterValid(collected.results)
               /\ rank_pc' = "ready"
    /\ UNCHANGED <<task, sem, thread, stalls, gathered>>
    /\ UNCHANGED <<fetchVars, pipeVars, scoreVars, sideVars, limit, oracle, ranked, top_stocks>>

\* the steps of one task
TaskStep(w) ==
    \/ Acquire(w)
    \/ Wake(w)
    \/ BlockingCall(w)
    \/ BlockingReturn(w)
    \/ \E outcome \in TaskOutcomes : Finish(w, outcome)

NextBatch ==
    \/ \E w \in Tasks : Acquire(w)
    \/ \E w \in Tasks : Wake(w)
    \/ \E w \in Tasks : BlockingCall(w)
    \/ \E w \in Tasks : BlockingReturn(w)
    \/ \E w \in Tasks, outcome \in TaskOutcomes : Finish(w, outcome)
    \/ GatherReturns

SpecBatch == InitBatch /\ [][NextBatch]_vars

\* The event loop runs whatever is ready to run, and a blocking call that
\* was entered returns
SpecBatchLive == SpecBatch /\ WF_vars(NextBatch)

\* get_top_stocks from the batch to its return: the ranking phase follows
\* the filter
NextTop ==
    \/ NextBatch
    \/ ReturnEmpty
    \/ /\ rank_pc = "ready"
       /\ \E answer \in {[kind |-> "agent_init_raises"], [kind |-> "call_raises"],
                          Response(<<"n", "n">>, <<>>)} :
             RankAndReturn(answer)

SpecTop == InitBatch /\ [][NextTop]_vars

\* one of the inputs of the scored stock came from a fallback generator
FromFallback(in) ==
    \/ Get(in.price_data, "data_source", "None") = FallbackSource("stock_price")
    \/ Get(in.fund, "data_source", "None") = FallbackSource("fundamental_data")

\* C16: a scored stock is held to the threshold 30 when its price series or
\* its fundamentals are fallback data and to 50 when both are live, and a
\* stock that scores below its threshold is not returned to the ranker.
C16_ThresholdFollowsDataQuality ==
    (score_pc = "done" /\ Len(scores) > 0) =>
        /\ min_score = IF FromFallback(score_in) THEN 30 * 100 ELSE 50 * 100
        /\ scores[1] < min_score => IsNone(analysed)

C18_AtMostThreeInProgress ==
    /\ Cardinality({w \in Tasks : task[w] \in InProgress}) <= 3
    /\ Cardinality({w \in Tasks : task[w] \in {"fetch", "blocked"}}) <= 3

\* three analyses are in progress and a fourth task is parked
C18_Witness ==
    /\ Cardinality({w \in Tasks : task[w] \in InProgress}) = 3
    /\ \E w \in Tasks : task[w] = "waiting"

\* C19: when one stock's analysis never completes, the batch still returns
\* (with that stock alone missing).
C19_BatchTerminatesWithoutTheStalled ==
    (Cardinality(stalls) = 1) =>
        <>(/\ batch_pc = "returned"
           /\ \A w \in Tasks \ stalls : gathered[w] # "pending")

\* C20: while a task waits in a fetch, a retry delay, a cache access or for
\* the oracle, every other task that holds a slot and whose own wait is over
\* can take a step.
C20_WaitDoesNotBlockOthers ==
    \A w, v \in Tasks :
        (/\ w # v
         /\ task[w] \in {"blocked", "awaiting"}
         /\ task[v] \in {"fetch", "awaiting"}
         /\ v \notin stalls)
            => ENABLED TaskStep(v)

\* the tasks whose analysis gave a result
Succeeded == {w \in Tasks : gathered[w] = "result"}

-----------------------------------------------------------------------------
(* The cache object used directly: RedisCache.get / set / delete /         *)
(* clear_pattern, with the Redis server going away and coming back         *)

MaxCacheCalls == 3

\* the patterns callers clear: one resource kind, or everything
Patterns == {"stock_price:*", "fundamental_data:*", "*"}

\* glob match of a cache key
Matches(pattern, key) ==
    \/ pattern = "*"
    \/ pattern = "stock_price:*" /\ key = cache_key("stock_price")
    \/ pattern = "fundamental_data:*" /\ key = cache_key("fundamental_data")

\* the values the calls of this part store
CacheValues == [data_source : LiveSources, id : 1..2]

\* the entries of the cache in its mode: the server's unexpired keys, or
\* the keys of the in-process map
Entries ==
    IF available THEN {k \in DOMAIN redis_store : now < redis_store[k].expires}
    ELSE DOMAIN fallback_cache

\* the backing store cannot be reached now
Unreachable == ~available \/ ~redisUp

NoCall == [op |-> "none", key |-> "None", value |-> NoPayload, at |-> 0,
           unreachable |-> FALSE, ok |-> FALSE, result |-> NoPayload,
           before |-> {}, after |-> {}, count |-> 0]

InitCache ==
    /\ available \in BOOLEAN
    /\ redisUp = available
    /\ redis_store = <<>>
    /\ fallback_cache = <<>>
    /\ now = 0
    /\ fetch = Idle
    /\ nextId = 1
    /\ hitlog = <<>>
    /\ ttls = NoTtls
    /\ NoRun
    /\ NoRanking
    /\ NoScoring
    /\ NoBatch

\* cache.set(key, value, ttl)
Set(key, value) ==
    /\ Len(cache_log) < MaxCacheCalls
    /\ redis_store' = CacheSetRedis(key, value, LIVE_TTL)
    /\ fallback_cache' = CacheSetLocal(key, value)
    /\ cache_log' = Append(cache_log,
                           [NoCall EXCEPT !.op = "set", !.key = key, !.value = value,
                                          !.at = now, !.unreachable = Unreachable,
                                          !.ok = CacheSetOk])
    /\ UNCHANGED <<available, redisUp, now, fetch, nextId, hitlog, ttls, bars, racers>>
    /\ UNCHANGED <<pipeVars, rankVars, scoreVars, batchVars>>

\* cache.get(key)
GetCall(key) ==
    /\ Len(cache_log) < MaxCacheCalls
    /\ cache_log' = Append(cache_log,
                           [NoCall EXCEPT !.op = "get", !.key = key, !.at = now,
                                          !.unreachable = Unreachable,
                                          !.result = CacheGet(key)])
    /\ UNCHANGED <<available, redisUp, redis_store, fallback_cache, now, fetch, nextId,
                   hitlog, ttls, bars, racers>>
    /\ UNCHANGED <<pipeVars, rankVars, scoreVars, batchVars>>

\* cache.delete(key)
Delete(key) ==
    /\ Len(cache_log) < MaxCacheCalls
    /\ redis_store' = IF available /\ redisUp
                      THEN [k \in (DOMAIN redis_store) \ {key} |-> redis_store[k]]
                      ELSE redis_store
    /\ fallback_cache' = IF ~available
                         THEN [k \in (DOMAIN fallback_cache) \ {key} |-> fallback_cache[k]]
                         ELSE fallback_cache
    /\ cache_log' = Append(cache_log,
                           [NoCall EXCEPT !.op = "delete", !.key = key, !.at = now,
                                          !.unreachable = Unreachable,
                                          !.ok = CacheSetOk])
    /\ UNCHANGED <<available, redisUp, now, fetch, nextId, hitlog, ttls, bars, racers>>
    /\ UNCHANGED <<pipeVars, rankVars, scoreVars, batchVars>>

\* cache.clear_pattern(pattern): keys() and delete() on the server when
\* self.available; otherwise, and after an exception, return 0
ClearPattern(pattern) ==
    /\ Len(cache_log) < MaxCacheCalls
    /\ LET keys == IF available /\ redisUp
                   THEN {k \in Entries : Matches(pattern, k)}
                   ELSE {}
       IN /\ redis_store' = [k \in (DOMAIN redis_store) \ keys |-> redis_store[k]]
          /\ cache_log' = Append(cache_log,
                                 [NoCall EXCEPT !.op = "clear_pattern", !.key = pattern,
                                                !.at = now, !.unreachable = Unreachable,
                                                !.before = Entries,
                                                !.after = Entries \ keys,
                                                !.count = Cardinality(keys)])
    /\ UNCHANGED <<available, redisUp, fallback_cache, now, fetch, nextId, hitlog, ttls,
                   bars, racers>>
    /\ UNCHANGED <<pipeVars, rankVars, scoreVars, batchVars>>

NextCache ==
    \/ \E key \in Keys, value \in CacheValues : Set(key, value)
    \/ \E key \in Keys : GetCall(key)
    \/ \E key \in Keys : Delete(key)
    \/ \E pattern \in Patterns : ClearPattern(pattern)
    \/ Tick
    \/ RedisFail
    \/ RedisRecover

SpecCache == InitCache /\ [][NextCache]_vars

\* C22: a set made while the backing store is unreachable (since
\* construction or since a later outage) succeeds, and a get of the same key
\* that follows it at once returns the value that was set.
C22_OutageServedInProcess ==
    \A i \in 1..Len(cache_log) :
        (cache_log[i].op = "set" /\ cache_log[i].unreachable) =>
            /\ cache_log[i].ok
            /\ (/\ i < Len(cache_log)
                /\ cache_log[i + 1].op = "get"
                /\ cache_log[i + 1].key = cache_log[i].key
                /\ cache_log[i + 1].at = cache_log[i].at)
                  => cache_log[i + 1].result = cache_log[i].value

\* C23: with the store reachable and in the in-process mode, clear_pattern
\* removes exactly the entries whose key matches and returns their number.
C23_ClearPatternRemovesMatches ==
    \A i \in 1..Len(cache_log) :
        (/\ cache_log[i].op = "clear_pattern"
         /\ (~available \/ ~cache_log[i].unreachable)) =>
            LET matching == {k \in cache_log[i].before : Matches(cache_log[i].key, k)}
            IN /\ cache_log[i].after = cache_log[i].before \ matching
               /\ cache_log[i].count = Cardinality(matching)

\* C24: with the fundamental and the sentiment analysis failed and the
\* technical analysis there, the action is the technical overall signal and
\* the confidence is the one reduced value 50.
C24_TechnicalOnlyFollowsTechnical ==
    (/\ Synthesized
     /\ Usable(state.tech_analysis)
     /\ ~Usable(state.fund_analysis)
     /\ ~Usable(state.sent_analysis)) =>
        /\ state.final_recommendation.action =
              state.tech_analysis.indicators.summary.overall_signal
        /\ state.final_recommendation.confidence = 50 * 100

-----------------------------------------------------------------------------
(* generate_fallback_data: the loop that builds historical_data, one bar   *)
(* per iteration. Unrounded prices are in 1/1000; random factors are in    *)
(* 1/1000 of 1; a returned price is in hundredths. The model keeps the     *)
(* bar just appended and the date before it, not the whole list.           *)

MaxPriceSteps == 1
MaxMidnights == 1

\* base_price = 1200.0, in 1/1000
BasePrice == 1200000

\* the day datetime.now() shows when the loop starts
StartDay == 1000

Periods == {"1mo", "3mo", "6mo", "1y"}

\* days = 90 if period == "3mo" else 180 if period == "6mo" else 365
days_Monthly(period) ==
    IF period = "1mo" THEN 30
    ELSE IF period = "3mo" THEN 90 ELSE IF period = "6mo" THEN 180 ELSE 365

days(period) == IF period = "3mo" THEN 90 ELSE IF period = "6mo" THEN 180 ELSE 365

\* the prices the walk visits here: about 1% of the base apart, off the
\* two-decimal grid
PriceAt(k) == BasePrice + k * 11995

\* random.uniform(0.98, 1.02)
OpenFactors == {980, 1001, 1020}

\* random.uniform(1.0, 1.02), with values below 1.0 as well
HighFactors_Below == {999, 1000, 1020}

\* random.uniform(1.0, 1.02)
HighFactors == {1000, 1020}

\* random.uniform(0.98, 1.0)
LowFactors == {980, 1000}

\* x * factor
Times(x, factor) == (x * factor) \div 1000

\* round(x, 2)
Round2(x) == RoundDiv(x, 10)

MaxOf(a, b) == IF a > b THEN a ELSE b

NoBar == [date |-> 0, open |-> 0, high |-> 0, low |-> 0, close |-> 0]

\* the dict appended for a day: OHLC around current_price
Bar(date, current_price, fo, fh, fl) ==
    LET open_price == Times(current_price, fo)
        high_price == Times(MaxOf(open_price, current_price), fh)
        low_price == Times(MinOf(open_price, current_price), fl)
    IN [date |-> date, open |-> Round2(open_price), high |-> Round2(high_price),
        low |-> Round2(low_price), close |-> Round2(current_price)]

InitGenerate ==
    /\ FetchIdle
    /\ NoRun
    /\ NoRanking
    /\ NoScoring
    /\ BatchIdle
    /\ cache_log = <<>>
    /\ racers = <<>>
    /\ \E period \in Periods :
          bars = [pc |-> "loop", period |-> period, i |-> 0, step |-> 0,
                  today |-> StartDay, last |-> NoBar, prev_date |-> 0, data_points |-> 0]

\* one iteration of the loop: the date, the walk's step, the bar
GenerateBar ==
    /\ bars.pc = "loop"
    /\ bars.i < days(bars.period)
    /\ \E step \in {k \in (bars.step - 1)..(bars.step + 1) :
                      -MaxPriceSteps <= k /\ k <= MaxPriceSteps},
          fo \in OpenFactors, fh \in HighFactors, fl \in LowFactors :
          LET date == bars.today - (days(bars.period) - bars.i)
          IN bars' = [bars EXCEPT !.i = @ + 1, !.step = step,
                                  !.last = Bar(date, PriceAt(step), fo, fh, fl),
                                  !.prev_date = bars.last.date,
                                  !.data_points = @ + 1]
    /\ UNCHANGED <<cache_log, racers>>
    /\ UNCHANGED <<fetchVars, pipeVars, rankVars, scoreVars, batchVars>>

\* the clock passes midnight while the loop runs
MidnightPasses ==
    /\ bars.pc = "loop"
    /\ bars.i < days(bars.period)
    /\ bars.today < StartDay + MaxMidnights
    /\ bars' = [bars EXCEPT !.today = @ + 1]
    /\ UNCHANGED <<cache_log, racers>>
    /\ UNCHANGED <<fetchVars, pipeVars, rankVars, scoreVars, batchVars>>

\* the loop is over: the payload is returned with its data_points
GenerateReturn ==
    /\ bars.pc = "loop"
    /\ bars.i = days(bars.period)
    /\ bars' = [bars EXCEPT !.pc = "returned"]
    /\ UNCHANGED <<cache_log, racers>>
    /\ UNCHANGED <<fetchVars, pipeVars, rankVars, scoreVars, batchVars>>

NextGenerate ==
    \/ GenerateBar
    \/ MidnightPasses
    \/ GenerateReturn

SpecGenerate == InitGenerate /\ [][NextGenerate]_vars

\* C25: every bar appended has low <= min(open, close) and
\* high >= max(open, close) in its rounded values.
C25_BarsKeepOhlcOrder ==
    bars.data_points > 0 =>
        /\ bars.last.low <= MinOf(bars.last.open, bars.last.close)
        /\ bars.last.high >= MaxOf(bars.last.open, bars.last.close)

\* a bar whose high factor is exactly 1.0 and whose open is above the
\* close: high and open round to the same value
C25_Witness ==
    /\ bars.data_points > 0
    /\ bars.last.open > bars.last.close
    /\ bars.last.high = bars.last.open
    /\ bars.last.low < bars.last.close

\* C29: for every period the returned series has at least 50 points, each
\* date after the first is later than the one before it, and the technical
\* tool does not reject the series as insufficient.
C29_FallbackSeriesLongEnough ==
    /\ bars.data_points > 1 => bars.last.date > bars.prev_date
    /\ bars.pc = "returned" =>
          /\ bars.data_points >= 50
          /\ ~InsufficientData(bars.data_points)

\* the three-month series is returned with its 90 points, midnight having
\* passed during the loop
C29_Witness ==
    /\ bars.pc = "returned"
    /\ bars.period = "3mo"
    /\ bars.data_points = 90
    /\ bars.today > StartDay

-----------------------------------------------------------------------------
(* Claims about the length check of the technical stage *)

\* the technical tool answered "Insufficient data" in this run
ShortSeries ==
    /\ "error" \in DOMAIN state.tech_analysis
    /\ state.tech_analysis.error = TechnicalFailure("Insufficient data")

\* C26: on a price series of fewer than 50 points the technical tool
\* computes nothing and answers "Insufficient data"; the technical stage then
\* ends as a failed stage without indicators and with its error recorded,
\* and the fundamental, sentiment and recommendation stages run all the same.
C26_ShortSeriesFailsTechnicalOnly ==
    /\ \A points \in SeriesLengths, computed \in TechToolOk \cup {CalculationFailed} :
          LET r == calculate_technical_indicators(points, computed)
          IN points < 50 =>
                /\ "indicators" \notin DOMAIN r
                /\ "error" \in DOMAIN r
                /\ r.error = "Insufficient data"
                /\ IsException(TechnicalAnalyze(r))
    /\ ShortSeries =>
          /\ "indicators" \notin DOMAIN state.tech_analysis
          /\ Len(state.errors) >= 1
          /\ state.errors[1] = "Technical analysis failed"
          /\ ~graph.raised
          /\ ~IsNone(result) =>
                /\ ~IsException(result)
                /\ Finished = Stages
                /\ "error" \in DOMAIN result.analyses.technical

\* the series was too short, the other three stages ran without failure and
\* a recommendation came out
C26_Witness ==
    /\ ShortSeries
    /\ ~IsNone(result)
    /\ forced = {"technical"}
    /\ Len(result.metadata.errors) = 1
    /\ "error" \notin DOMAIN result.analyses.fundamental
    /\ "error" \notin DOMAIN result.analyses.sentiment
    /\ "action" \in DOMAIN result.final_recommendation

-----------------------------------------------------------------------------
(* Claims about the technical points of the score *)

\* the overall signal of the technical stage's result
StageSignal(tech_analysis) == tech_analysis.indicators.summary.overall_signal

\* C27: when the technical stage gave a result, the technical points of the
\* score are 25 for its overall signal buy, 5 for sell, and the hold value
\* (12, or 15 on fallback data) for hold.
C27_TechPointsFollowStageSignal ==
    (/\ score_pc = "done"
     /\ Len(scores) > 0
     /\ "indicators" \in DOMAIN score_in.tech) =>
        LET using_fallback == UsingFallback(score_in.fund, score_in.price_data)
            points == TechPoints(score_in.tech, using_fallback)
            signal == StageSignal(score_in.tech)
        IN /\ signal = "buy" => points = 25 * 100
           /\ signal = "sell" => points = 5 * 100
           /\ signal = "hold" => points = (IF using_fallback THEN 15 ELSE 12) * 100

-----------------------------------------------------------------------------
(* Claims about the errors list of the pipeline's result *)

\* the entry a failed stage has in the errors list, none when it did not fail
ErrorEntry(analysis, message) ==
    IF "error" \in DOMAIN analysis THEN <<message>> ELSE <<>>

-----------------------------------------------------------------------------
(* Two calls of get_stock_price for one key in two processes that share    *)
(* the Redis server: the API process and a Celery worker. Inside one       *)
(* process the tool has no await between its cache.get and its cache.set,  *)
(* so calls on one event loop do not interleave; calls in two processes    *)
(* do, at every Redis command.                                             *)

Racers == {"api", "celery"}

RaceKey == cache_key("stock_price")

NoRacer == [pc |-> "idle", attempt |-> 0, result |-> NoPayload]

InitRace ==
    /\ available = TRUE
    /\ redisUp = TRUE
    /\ redis_store = <<>>
    /\ fallback_cache = <<>>
    /\ now = 0
    /\ fetch = Idle
    /\ nextId = 1
    /\ hitlog = <<>>
    /\ ttls = NoTtls
    /\ NoRun
    /\ NoRanking
    /\ NoScoring
    /\ BatchIdle
    /\ cache_log = <<>>
    /\ bars = <<>>
    /\ racers = [r \in Racers |-> NoRacer]

\* the tool is invoked in process r
RaceCall(r) ==
    /\ racers[r].pc = "idle"
    /\ nextId <= MaxPayloads
    /\ racers' = [racers EXCEPT ![r] = [NoRacer EXCEPT !.pc = "cache_get"]]
    /\ UNCHANGED <<cache_log, bars>>
    /\ UNCHANGED <<fetchVars, pipeVars, rankVars, scoreVars, batchVars>>

\* cached_data = cache.get(cache_key); if cached_data: return cached_data
RaceLookup(r) ==
    /\ racers[r].pc = "cache_get"
    /\ LET cached_data == CacheGet(RaceKey)
       IN racers' = [racers EXCEPT ![r] =
                        IF Truthy(cached_data)
                        THEN [@ EXCEPT !.pc = "done", !.result = cached_data]
                        ELSE [@ EXCEPT !.pc = "attempt"]]
    /\ UNCHANGED <<cache_log, bars>>
    /\ UNCHANGED <<fetchVars, pipeVars, rankVars, scoreVars, batchVars>>

\* one iteration of the retry loop in process r
RaceAttempt(r, o) ==
    /\ racers[r].pc = "attempt"
    /\ LET h == Handler("stock_price", o, racers[r].attempt)
           live == [data_source |-> LiveSource("stock_price"), id |-> nextId]
           last == [data_source |-> FallbackSource("stock_price"), id |-> nextId]
       IN CASE h = "return" ->
                 /\ redis_store' = CacheSetRedis(RaceKey, live, LIVE_TTL)
                 /\ racers' = [racers EXCEPT ![r].pc = "done", ![r].result = live]
                 /\ nextId' = nextId + 1
            [] h = "last_resort" ->
                 /\ racers' = [racers EXCEPT ![r].pc = "done", ![r].result = last]
                 /\ nextId' = nextId + 1
                 /\ UNCHANGED redis_store
            [] h = "raise" ->
                 /\ racers' = [racers EXCEPT ![r].pc = "done", ![r].result = Raised]
                 /\ UNCHANGED <<redis_store, nextId>>
            [] OTHER ->
                 /\ racers' = IF LoopGoesOn("stock_price", h, racers[r].attempt)
                              THEN [racers EXCEPT ![r].attempt = @ + 1]
                              ELSE [racers EXCEPT ![r].pc = "fallback"]
                 /\ UNCHANGED <<redis_store, nextId>>
    /\ UNCHANGED <<available, redisUp, fallback_cache, now, fetch, hitlog, ttls>>
    /\ UNCHANGED <<cache_log, bars>>
    /\ UNCHANGED <<pipeVars, rankVars, scoreVars, batchVars>>

\* all retries failed in process r: cache.set(cache_key, fallback_result, ttl=900)
RaceFallback(r) ==
    /\ racers[r].pc = "fallback"
    /\ LET fallback_result == [data_source |-> FallbackSource("stock_price"), id |-> nextId]
       IN /\ redis_store' = CacheSetRedis(RaceKey, fallback_result, FALLBACK_TTL)
          /\ racers' = [racers EXCEPT ![r].pc = "done", ![r].result = fallback_result]
    /\ nextId' = nextId + 1
    /\ UNCHANGED <<available, redisUp, fallback_cache, now, fetch, hitlog, ttls>>
    /\ UNCHANGED <<cache_log, bars>>
    /\ UNCHANGED <<pipeVars, rankVars, scoreVars, batchVars>>

\* the caller in process r has the result
RaceReturn(r) ==
    /\ racers[r].pc = "done"
    /\ racers' = [racers EXCEPT ![r] = NoRacer]
    /\ UNCHANGED <<cache_log, bars>>
    /\ UNCHANGED <<fetchVars, pipeVars, rankVars, scoreVars, batchVars>>

NextRace ==
    \/ \E r \in Racers : RaceCall(r)
    \/ \E r \in Racers : RaceLookup(r)
    \/ \E r \in Racers, o \in PriceOutcomes : RaceAttempt(r, o)
    \/ \E r \in Racers : RaceFallback(r)
    \/ \E r \in Racers : RaceReturn(r)
    \/ Tick

SpecRace == InitRace /\ [][NextRace]_vars

\* the server holds a live payload under the key and its TTL has not run out
LiveHeld(key) ==
    /\ key \in DOMAIN redis_store
    /\ now < redis_store[key].expires
    /\ Deserialize(redis_store[key].value).data_source \in LiveSources

\* C30: while the cache holds an unexpired live payload for a key, no step
\* of any fetch of that key puts a fallback payload in its place.
C30_LiveNotReplacedByFallback ==
    [][LiveHeld(RaceKey) =>
          Deserialize(redis_store'[RaceKey].value).data_source \notin FallbackSources]_vars

=============================================================================
